---- MODULE Spec2Model ----
(***************************************************************************)
(* Market-making platform: the wager lifecycle (WagerManager), the risk    *)
(* gate (RiskManager), the strategy and platform entry points that place   *)
(* and cancel wagers, and the exchange client's id map (ProphetSportsAPI). *)
(*                                                                         *)
(* All coroutines run on one asyncio event loop.  A coroutine runs without *)
(* interruption until it awaits the HTTP request of the exchange client    *)
(* (ProphetSportsAPI._async_request); each action below is one such        *)
(* uninterrupted segment: from the call to the await, or from the HTTP     *)
(* response to the return.  Calls suspended at the await are in inflight.  *)
(***************************************************************************)
EXTENDS Integers, Sequences, FiniteSets, Bags, TLC

VARIABLES
    settings,               \* Settings: trading and risk configuration
    held,                   \* what a consumer got from get_active_wagers and keeps
    notifying,              \* a call of _notify_subscribers over named callbacks
    is_active,              \* SimpleMarketMaker.is_active
    active_wagers,          \* WagerManager.active_wagers (insertion-ordered dict)
    wager_history,          \* WagerManager.wager_history
    pending_placements,     \* WagerManager.pending_placements
    pending_cancellations,  \* WagerManager.pending_cancellations
    total_placed,           \* WagerManager.total_placed
    total_cancelled,        \* WagerManager.total_cancelled
    api_wagers,             \* ProphetSportsAPI.wagers: external_id -> wager_id
    stats,                  \* MarketMakingPlatform.stats counters
    next_uuid,              \* the next external id uuid4 hands out
    calls,                  \* operations called so far
    inflight,               \* transport calls awaiting their HTTP response
    last,                   \* what the last step did and returned
    sport_events,           \* ProphetSportsAPI.sport_events: the event's market data
    order_books,            \* MarketDataManager.order_books: market_id -> OrderBook
    compared,               \* the last call of _is_better_odds and its result
    subscribers,            \* MarketDataManager.subscribers
    current_data,           \* MarketDataManager.current_data: event_id -> data
    total_updates,          \* MarketDataManager.total_updates
    balance,                \* ProphetSportsAPI.balance
    pushed,                 \* push events the Pusher thread has handed to a handler
    loop_tasks              \* coroutines run_coroutine_threadsafe gave the event loop

(* The wager side of the platform. *)
tradingVars == <<settings, held, notifying, is_active, active_wagers, wager_history, pending_placements,
                 pending_cancellations, total_placed, total_cancelled, api_wagers,
                 stats, next_uuid, calls, inflight, last>>

(* The market-data side of the platform. *)
marketVars == <<sport_events, order_books, compared>>

pushVars == <<subscribers, current_data, total_updates, balance, pushed, loop_tasks>>

vars == <<tradingVars, marketVars, pushVars>>

managerVars == <<active_wagers, wager_history, pending_placements,
                 pending_cancellations, total_placed, total_cancelled>>

----------------------------------------------------------------------------
(* Bounds of the model *)

MaxCalls == 3        \* operations called in one run

(* External ids are numbered in the order uuid4 hands them out. *)
ExternalIds == 1..MaxCalls

(* Inputs: stakes and odds on both sides of every limit. *)
Stakes == {0, 6, 10, 50}
Odds == {-205, 200, 205}
EventIds == {1001}

(* What place_manual_wager is called with: it looks at neither value. *)
ManualOdds == {200}
ManualStakes == {50}
NoEvent == 0

----------------------------------------------------------------------------
(* Configuration (config/settings.py) *)

DefaultTradingConfig ==
    [dry_run |-> TRUE, max_stake_per_wager |-> 10, max_total_exposure |-> 1000,
     min_odds |-> -200, max_odds |-> 200, max_concurrent_wagers |-> 50]

DefaultRiskConfig ==
    [max_daily_loss |-> 500, max_position_size |-> 100,
     position_limits |-> [e \in {} |-> 0]]

DefaultStrategyConfig == [max_position |-> 100]

(* The configurations a run may be started with: the defaults (a dry run,  *)
(* limits no bounded run reaches) and live trading with tight limits.      *)
TightExposure == 15
TightConcurrent == 1
TightEventLimit == 10

SettingsChoices ==
    { [trading |-> DefaultTradingConfig, risk |-> DefaultRiskConfig,
       strategy |-> DefaultStrategyConfig],
      [trading |-> [DefaultTradingConfig EXCEPT !.dry_run = FALSE,
                        !.max_total_exposure = TightExposure,
                        !.max_concurrent_wagers = TightConcurrent],
       risk |-> [DefaultRiskConfig EXCEPT
                        !.position_limits = [e \in EventIds |-> TightEventLimit]],
       strategy |-> DefaultStrategyConfig] }

----------------------------------------------------------------------------
(* WagerStatus (exchanges/prophet_sports_api.py) *)

PENDING == "pending"
OPEN == "open"
MATCHED == "matched"
CANCELLED == "cancelled"
SETTLED == "settled"
WagerStatus == {PENDING, OPEN, MATCHED, CANCELLED, SETTLED}

(* Wager: a new Wager has status PENDING. *)
Wager(external_id, odds, stake) ==
    [external_id |-> external_id, odds |-> odds, stake |-> stake, status |-> PENDING]

(* WagerRecord: rid is the identity of the record object. *)
WagerRecord(rid, wager, strategy_name, event_id) ==
    [rid |-> rid, wager |-> wager, strategy_name |-> strategy_name,
     event_id |-> event_id]

----------------------------------------------------------------------------
(* active_wagers is a Python dict: a sequence of records, one per key, in   *)
(* insertion order.                                                         *)

DictKeys(d) == {d[i].wager.external_id : i \in 1..Len(d)}

DictGet(d, k) == d[CHOOSE i \in 1..Len(d) : d[i].wager.external_id = k]

(* d[k] = record: an existing key keeps its position. *)
DictSet(d, record) ==
    IF record.wager.external_id \in DictKeys(d)
    THEN [i \in 1..Len(d) |->
            IF d[i].wager.external_id = record.wager.external_id THEN record ELSE d[i]]
    ELSE Append(d, record)

DictPop(d, k) == SelectSeq(d, LAMBDA r : r.wager.external_id # k)

(* dict.pop(k, None) on a dict held as a function *)
MapPop(m, k) == [x \in DOMAIN m \ {k} |-> m[x]]

MapSet(m, k, v) == [x \in DOMAIN m \cup {k} |-> IF x = k THEN v ELSE m[x]]

EmptyMap == [x \in {} |-> 0]

(* dict.clear() *)
clear_Skipped(d) == d

clear(d) == <<>>

RECURSIVE SumStakes(_)
SumStakes(records) ==
    IF records = <<>> THEN 0
    ELSE Head(records).wager.stake + SumStakes(Tail(records))

----------------------------------------------------------------------------
(* WagerManager read accessors *)

get_active_wagers == active_wagers

get_total_exposure == SumStakes(active_wagers)

get_exposure_by_event(event_id) ==
    SumStakes(SelectSeq(active_wagers, LAMBDA r : r.event_id = event_id))

(* What the caller of get_active_wagers holds: a list of references to   *)
(* record objects (refs, by rid), and, for comparison, the records as    *)
(* they were when the call returned (seen).                              *)
NoSnapshot == [taken |-> FALSE, refs |-> <<>>, seen |-> <<>>]

Snapshot(records) ==
    [taken |-> TRUE, refs |-> [i \in 1..Len(records) |-> records[i].rid],
     seen |-> records]

(* The record object a reference leads to, as it is now: the object is   *)
(* in active_wagers, or in wager_history once a cancel has moved it, or  *)
(* in neither after another placement took its key, and then nothing has *)
(* written to it.                                                        *)
Deref(rid, seen) ==
    IF \E i \in 1..Len(active_wagers) : active_wagers[i].rid = rid
    THEN active_wagers[CHOOSE i \in 1..Len(active_wagers) : active_wagers[i].rid = rid]
    ELSE IF \E i \in 1..Len(wager_history) : wager_history[i].rid = rid
    THEN wager_history[CHOOSE i \in 1..Len(wager_history) : wager_history[i].rid = rid]
    ELSE seen

(* _validate_wager without the check against max_stake_per_wager *)
_validate_wager_NoMaxStake(wager) ==
    IF wager.stake <= 0 THEN FALSE
    ELSE IF ~(settings.trading.min_odds <= wager.odds
              /\ wager.odds <= settings.trading.max_odds) THEN FALSE
    ELSE TRUE

(* WagerManager._validate_wager *)
_validate_wager(wager) ==
    IF wager.stake <= 0 THEN FALSE
    ELSE IF wager.stake > settings.trading.max_stake_per_wager THEN FALSE
    ELSE IF ~(settings.trading.min_odds <= wager.odds
              /\ wager.odds <= settings.trading.max_odds) THEN FALSE
    ELSE TRUE

(* WagerManager._check_position_limits *)
_check_position_limits(wager) ==
    IF get_total_exposure + wager.stake > settings.trading.max_total_exposure THEN FALSE
    ELSE IF Len(active_wagers) >= settings.trading.max_concurrent_wagers THEN FALSE
    ELSE TRUE

----------------------------------------------------------------------------
(* RiskManager *)

daily_pnl == 0

(* RiskManager.check_wager_risk; event_id = NoEvent when no market context *)
(* (or no event id in it) is given.                                        *)
check_wager_risk(wager, event_id) ==
    IF wager.stake > settings.risk.max_position_size THEN FALSE
    ELSE IF get_total_exposure + wager.stake > settings.risk.max_position_size * 10
        THEN FALSE
    ELSE IF daily_pnl < -settings.risk.max_daily_loss THEN FALSE
    ELSE IF event_id # NoEvent
           /\ get_exposure_by_event(event_id) + wager.stake >
                (IF event_id \in DOMAIN settings.risk.position_limits
                 THEN settings.risk.position_limits[event_id]
                 ELSE settings.risk.max_position_size)
        THEN FALSE
    ELSE TRUE

----------------------------------------------------------------------------
(* ProphetSportsAPI *)

(* The odds ladder the strategy draws from (_get_default_odds is          *)
(* -200..-105 and 100..295 in steps of 5).                                *)
valid_odds == {o \in Odds : (-200 <= o /\ o < -100) \/ (100 <= o /\ o < 300)}

(* The id the exchange assigns in a 200 response to place_wager. *)
WagerIds == {9001}

(* HTTP outcomes of a transport request; 500 stands for every other       *)
(* status and for a request that raises, which the client treats alike.   *)
Responses == {200, 404, 500}

(* A transport call suspended at `await self._async_request(...)`. *)
Call(fn, caller, wager, strategy_name, event_id, risk_checked, validated) ==
    [fn |-> fn, caller |-> caller, wager |-> wager, strategy_name |-> strategy_name,
     event_id |-> event_id, risk_checked |-> risk_checked, validated |-> validated,
     active |-> {}]

NoWager(external_id) == [external_id |-> external_id, odds |-> 0, stake |-> 0,
                         status |-> PENDING]

(* A suspended cancel_all_wagers, with the records that were active when *)
(* it was called (the ones its first log line counts).                   *)
CancelAllCall(records) ==
    [Call("cancel_all_wagers", "wager_manager", NoWager(0), "", NoEvent, FALSE, FALSE)
     EXCEPT !.active = {records[i].rid : i \in 1..Len(records)}]

InFlight(fn, caller) ==
    {c \in BagToSet(inflight) : c.fn = fn /\ c.caller = caller}

Suspend(c) == inflight' = inflight (+) SetToBag({c})

Resume(c) == inflight' = inflight (-) SetToBag({c})

(* What a step did: the operation, the external id it was about, whether  *)
(* it returned (or suspended at the transport await), whether the value   *)
(* returned is truthy, and the branch taken.                              *)
Outcome(op, wager, returned, ok, why) ==
    [op |-> op, external_id |-> wager.external_id, returned |-> returned, ok |-> ok,
     why |-> why]

----------------------------------------------------------------------------
(* Market data (data/market_data_manager.py) *)

(* Python's None in a field that holds odds: Optional[int]. *)
None == -1000000

(* Odds the comparator is called with, on both sides of 0. *)
MaxOdds == 5
OddsRange == (-MaxOdds..MaxOdds) \cup {None}

abs(x) == IF x < 0 THEN -x ELSE x

(* _is_better_odds that prefers the odds farther from zero, whatever the sign *)
_is_better_odds_AbsLarger(new_odds, current_odds) ==
    IF new_odds = None THEN FALSE
    ELSE IF current_odds = None THEN TRUE
    ELSE abs(new_odds) > abs(current_odds)

(* MarketDataManager._is_better_odds *)
_is_better_odds(new_odds, current_odds) ==
    IF new_odds = None /\ current_odds = None THEN FALSE
    ELSE IF new_odds = None THEN FALSE
    ELSE IF current_odds = None THEN TRUE
    ELSE IF new_odds > 0 /\ current_odds > 0 THEN new_odds > current_odds
    ELSE IF new_odds < 0 /\ current_odds < 0 THEN abs(new_odds) < abs(current_odds)
    ELSE IF new_odds > 0 /\ current_odds < 0 THEN TRUE
    ELSE IF new_odds < 0 /\ current_odds > 0 THEN FALSE
    ELSE FALSE

(* A call of _is_better_odds and what it returned. *)
Compared(new_odds, current_odds) ==
    [new_odds |-> new_odds, current_odds |-> current_odds,
     better |-> _is_better_odds(new_odds, current_odds)]

(* A selection entry of the exchange's market data.  An entry that is   *)
(* not a dict (dict = FALSE) makes selection.get(...) raise.             *)
Selection(name, odds, value, outcome_id) ==
    [dict |-> TRUE, name |-> name, odds |-> odds, value |-> value,
     outcome_id |-> outcome_id]

Malformed == [dict |-> FALSE, name |-> "", odds |-> None, value |-> 0, outcome_id |-> 0]

(* A market line of a spread or total market. *)
MarketLine(line, selections) == [line |-> line, selections |-> selections]

(* A market of an event: market['selections'], market['market_lines']. *)
Market(selections, market_lines) ==
    [selections |-> selections, market_lines |-> market_lines]

(* SelectionLevel, without its timestamp *)
SelectionLevel(selection_id, selection_name, odds, size) ==
    [selection_id |-> selection_id, selection_name |-> selection_name,
     odds |-> odds, size |-> size]

(* A new OrderBook.  selections is a dict, held in insertion order;       *)
(* best_selection is Optional: no level or one.                           *)
OrderBook ==
    [selections |-> <<>>, line_groups |-> EmptyMap, available_lines |-> <<>>,
     best_selection |-> <<>>, spread |-> 0, total_volume |-> 0]

(* selections[level.selection_id] = level *)
PutLevel(selections, level) ==
    IF \E i \in 1..Len(selections) : selections[i].selection_id = level.selection_id
    THEN [i \in 1..Len(selections) |->
            IF selections[i].selection_id = level.selection_id
            THEN level ELSE selections[i]]
    ELSE Append(selections, level)

RECURSIVE PutLevels(_, _)
PutLevels(selections, levels) ==
    IF levels = <<>> THEN selections
    ELSE PutLevels(PutLevel(selections, Head(levels)), Tail(levels))

(* 0.0 if odds is None else (value if value > 0 else 1.0) *)
display_value(odds, value) ==
    IF odds = None THEN 0 ELSE IF value > 0 THEN value ELSE 1

max(a, b) == IF a >= b THEN a ELSE b

(* The loop of _process_direct_selections over all_selections:           *)
(* best_selections, a dict by name, in the order the names first occur.  *)
(* Every entry of the inputs carries an outcome id, so the fallback      *)
(* hash(name) % 10000 for a missing one is not taken.                    *)
RECURSIVE BestSelections(_, _)
BestSelections(all_selections, best_selections) ==
    IF all_selections = <<>> THEN best_selections
    ELSE
      LET selection == Head(all_selections)
          known == {i \in 1..Len(best_selections) :
                        best_selections[i].name = selection.name}
          shown == display_value(selection.odds, selection.value)
          updated ==
            IF selection.name = "" THEN best_selections
            ELSE IF known = {}
            THEN Append(best_selections,
                        [name |-> selection.name, odds |-> selection.odds,
                         value |-> shown, outcome_id |-> selection.outcome_id])
            ELSE LET i == CHOOSE i \in known : TRUE IN
                 IF _is_better_odds(selection.odds, best_selections[i].odds)
                 THEN [best_selections EXCEPT ![i] =
                         [name |-> @.name, odds |-> selection.odds,
                          value |-> max(shown, @.value),
                          outcome_id |-> IF selection.outcome_id # 0
                                         THEN selection.outcome_id ELSE @.outcome_id]]
                 ELSE best_selections
      IN  BestSelections(Tail(all_selections), updated)

(* The selection levels made from best_selections, in its order. *)
BestLevels(best_selections) ==
    [i \in 1..Len(best_selections) |->
        SelectionLevel(<<best_selections[i].outcome_id>>, best_selections[i].name,
                       best_selections[i].odds, best_selections[i].value)]

HasMalformed(selections) == \E i \in 1..Len(selections) : ~selections[i].dict

(* What a step of the book algorithms gives: the book as it leaves it    *)
(* and whether it raised.                                                *)
Result(order_book, raised) == [order_book |-> order_book, raised |-> raised]

(* MarketDataManager._process_direct_selections.  The book is written    *)
(* only after the loop over the entries, which is where an entry that is *)
(* not a dict raises.                                                    *)
_process_direct_selections(order_book, selections) ==
    IF HasMalformed(selections) THEN Result(order_book, TRUE)
    ELSE Result([order_book EXCEPT !.selections =
                    PutLevels(@, BestLevels(BestSelections(selections, <<>>)))],
                FALSE)

(* The id of a level of a line: f"{outcome_id}_{line_value}_{odds}_{value}" *)
unique_id(outcome_id, line_value, odds, value) ==
    <<outcome_id, line_value, odds, value>>

(* selections_by_name of one line: a dict by name, in the order the      *)
(* names first occur, of the entries of that name in input order.        *)
RECURSIVE SelectionsByName(_, _, _)
SelectionsByName(line_selections, line_value, by_name) ==
    IF line_selections = <<>> THEN by_name
    ELSE
      LET selection == Head(line_selections)
          known == {i \in 1..Len(by_name) : by_name[i].name = selection.name}
          level == SelectionLevel(
                       unique_id(selection.outcome_id, line_value, selection.odds,
                                 selection.value),
                       selection.name, selection.odds,
                       display_value(selection.odds, selection.value))
          updated ==
            IF selection.name = "" THEN by_name
            ELSE IF known = {}
            THEN Append(by_name, [name |-> selection.name, levels |-> <<level>>])
            ELSE LET i == CHOOSE i \in known : TRUE IN
                 [by_name EXCEPT ![i].levels = Append(@, level)]
      IN  SelectionsByName(Tail(line_selections), line_value, updated)

(* The sort key of a level: its odds, float('inf') for None. *)
KeyLess(a, b) == a # None /\ (b = None \/ a < b)

(* sort(key=..., reverse=True): descending and stable. *)
RECURSIVE SortedDescending(_, _)
SortedDescending(levels, sorted) ==
    IF levels = <<>> THEN sorted
    ELSE
      LET x == Head(levels)
          smaller == {i \in 1..Len(sorted) : KeyLess(sorted[i].odds, x.odds)}
          at == IF smaller = {} THEN Len(sorted) + 1
                ELSE CHOOSE i \in smaller : \A j \in smaller : i <= j
      IN  SortedDescending(Tail(levels),
              SubSeq(sorted, 1, at - 1) \o <<x>> \o SubSeq(sorted, at, Len(sorted)))

(* The levels of one name, sorted when the first of them is priced. *)
SortedLevels(levels) ==
    IF levels # <<>> /\ levels[1].odds # None
    THEN SortedDescending(levels, <<>>) ELSE levels

(* The second loop of a line: the levels of every name are appended to   *)
(* line_groups[line_value][name] and put into selections.                *)
RECURSIVE AddLevels(_, _, _)
AddLevels(order_book, line_value, by_name) ==
    IF by_name = <<>> THEN order_book
    ELSE
      LET name == Head(by_name).name
          levels == SortedLevels(Head(by_name).levels)
          group == order_book.line_groups[line_value]
          before == IF name \in DOMAIN group THEN group[name] ELSE <<>>
      IN  AddLevels(
              [order_book EXCEPT
                 !.line_groups = MapSet(@, line_value, MapSet(group, name, before \o levels)),
                 !.selections = PutLevels(@, levels)],
              line_value, Tail(by_name))

(* float(x) of a line value, in tenths *)
Float(line_value) ==
    CASE line_value = "-1.5" -> -15
      [] line_value = "0.5" -> 5
      [] line_value = "2.5" -> 25
      [] line_value = "10.5" -> 105

(* float(x) returns: it raises ValueError for every other text *)
IsFloat(line_value) == line_value \in {"-1.5", "0.5", "2.5", "10.5"}

(* float('inf') *)
Inf == 1000000

(* The key of the first sort: float(x) if x != 'N/A' else float('inf'). *)
LineKey(line_value) == IF line_value = "N/A" THEN Inf ELSE Float(line_value)

(* The key of the fallback sort(): the place of the text among the line  *)
(* values in the order of str, character by character ('-' < '0' < '1' < *)
(* '2' < 'N' < 'T').                                                     *)
TextKey(line_value) ==
    CASE line_value = "-1.5" -> 1
      [] line_value = "0.5" -> 2
      [] line_value = "10.5" -> 3
      [] line_value = "2.5" -> 4
      [] line_value = "N/A" -> 5
      [] line_value = "TBD" -> 6

(* list.sort by the key: ascending and stable. *)
RECURSIVE SortedBy(_, _, _)
SortedBy(lines, sorted, key) ==
    IF lines = <<>> THEN sorted
    ELSE
      LET x == Head(lines)
          greater == {i \in 1..Len(sorted) : key[x] < key[sorted[i]]}
          at == IF greater = {} THEN Len(sorted) + 1
                ELSE CHOOSE i \in greater : \A j \in greater : i <= j
      IN  SortedBy(Tail(lines),
              SubSeq(sorted, 1, at - 1) \o <<x>> \o SubSeq(sorted, at, Len(sorted)),
              key)

Range(lines) == {lines[i] : i \in 1..Len(lines)}

(* The sort of available_lines at the end of _process_market_lines: by   *)
(* float, 'N/A' last; the keys are computed before anything moves, and   *)
(* when one of them raises ValueError the list is sorted as text.        *)
SortedLines(lines, sorted) ==
    IF \A x \in Range(lines) : x = "N/A" \/ IsFloat(x)
    THEN SortedBy(lines, sorted, [x \in Range(lines) |-> LineKey(x)])
    ELSE SortedBy(lines, sorted, [x \in Range(lines) |-> TextKey(x)])

(* The loop of _process_market_lines over the lines, up to the line that *)
(* raises: a line starts its group, then reads its entries, then writes  *)
(* its levels.                                                           *)
RECURSIVE ProcessLines(_, _)
ProcessLines(order_book, market_lines) ==
    IF market_lines = <<>> THEN Result(order_book, FALSE)
    ELSE
      LET line == Head(market_lines)
          started ==
            IF line.line \in DOMAIN order_book.line_groups THEN order_book
            ELSE [order_book EXCEPT
                    !.line_groups = MapSet(@, line.line, EmptyMap),
                    !.available_lines = Append(@, line.line)]
      IN  IF HasMalformed(line.selections) THEN Result(started, TRUE)
          ELSE ProcessLines(
                   AddLevels(started, line.line,
                             SelectionsByName(line.selections, line.line, <<>>)),
                   Tail(market_lines))

(* MarketDataManager._process_market_lines *)
_process_market_lines(order_book, market_lines) ==
    IF market_lines = <<>> THEN Result(order_book, FALSE)
    ELSE
      LET cleared == [order_book EXCEPT !.line_groups = EmptyMap,
                                        !.available_lines = <<>>]
          done == ProcessLines(cleared, market_lines)
      IN  IF done.raised THEN done
          ELSE Result([done.order_book EXCEPT
                          !.available_lines = SortedLines(@, <<>>)], FALSE)

(* MarketDataManager._process_market_selections: whatever is raised is   *)
(* caught and logged, and the book stays as the failing step left it.    *)
_process_market_selections(order_book, market) ==
    LET cleared == [order_book EXCEPT !.selections = <<>>] IN
    IF market.selections # <<>>
    THEN _process_direct_selections(cleared, market.selections).order_book
    ELSE IF market.market_lines # <<>>
    THEN _process_market_lines(cleared, market.market_lines).order_book
    ELSE cleared

RECURSIVE SumSizes(_)
SumSizes(selections) ==
    IF selections = <<>> THEN 0
    ELSE Head(selections).size + SumSizes(Tail(selections))

MaxOf(S) == CHOOSE x \in S : \A y \in S : y <= x

MinOf(S) == CHOOSE x \in S : \A y \in S : x <= y

(* _calculate_order_book_metrics that returns at once for a book with no *)
(* selections, without resetting the metrics                             *)
_calculate_order_book_metrics_NoReset(order_book) ==
    IF order_book.selections = <<>> THEN order_book
    ELSE [order_book EXCEPT
            !.best_selection = <<order_book.selections[1]>>,
            !.spread = 0,
            !.total_volume = SumSizes(order_book.selections)]

(* MarketDataManager._calculate_order_book_metrics *)
_calculate_order_book_metrics(order_book) ==
    IF order_book.selections = <<>>
    THEN [order_book EXCEPT !.best_selection = <<>>, !.spread = 0, !.total_volume = 0]
    ELSE
      LET selections == order_book.selections
          valid_odds_selections == SelectSeq(selections, LAMBDA sel : sel.odds # None)
          odds_values == {valid_odds_selections[i].odds :
                              i \in 1..Len(valid_odds_selections)}
      IN  [order_book EXCEPT
             !.best_selection = <<selections[1]>>,
             !.spread = IF Len(valid_odds_selections) >= 2
                        THEN MaxOf(odds_values) - MinOf(odds_values) ELSE 0,
             !.total_volume = SumSizes(selections)]

(* What initialize_order_books and _refresh_event_order_books do to a    *)
(* book: the selections of the market, then the metrics.                 *)
Refreshed(order_book, market) ==
    _calculate_order_book_metrics(_process_market_selections(order_book, market))

(* Market data the exchange may hold for the event: selection entries   *)
(* with better and worse odds for one name, an unpriced entry, two names *)
(* under one outcome id, and an entry that is not a dict.                *)
MaxSelections == 2
MaxLines == 2

SelectionEntries ==
    { Selection("Team A", -120, 5, 7), Selection("Team A", -110, 0, 7),
      Selection("Team B", 150, 3, 8), Selection("Team B", None, 5, 7),
      Selection("Draw", None, 2, 9), Malformed }

LineSelections ==
    { <<Selection("Team A", -120, 5, 7), Selection("Team A", -110, 0, 7)>>,
      <<Selection("Team B", 150, 3, 8), Malformed>> }

LineValues == {"-1.5", "2.5"}

SeqsUpTo(S, n) == UNION {[1..k -> S] : k \in 1..n}

(* Line values of a market quoted by lines only: numbers, 'N/A' (a line  *)
(* without a 'line' key) and a text that is neither.                     *)
MaxLineValues == 3

AllLineValues == {"-1.5", "0.5", "2.5", "10.5", "N/A", "TBD"}

LineMarkets ==
    {Market(<<>>, market_lines) :
         market_lines \in SeqsUpTo(
             {MarketLine(line, <<Selection("Team A", -120, 5, 7)>>) :
                  line \in AllLineValues},
             MaxLineValues)}

(* The entries of one line of a market with depth: several prices of    *)
(* one name, priced and unpriced, and, as sequences repeat entries, the  *)
(* same (outcome, line, odds, value) more than once.                     *)
MaxDepth == 3

DepthEntries ==
    { Selection("Team A", -120, 5, 7), Selection("Team A", -110, 0, 7),
      Selection("Team A", None, 5, 7), Selection("Team B", 150, 3, 8),
      Selection("Team B", None, 2, 8) }

DepthMarkets ==
    {Market(<<>>, <<MarketLine("-1.5", selections)>>) :
         selections \in SeqsUpTo(DepthEntries, MaxDepth)}

Markets ==
    {Market(<<>>, <<>>)}
    \cup {Market(selections, <<>>) :
              selections \in SeqsUpTo(SelectionEntries, MaxSelections)}
    \cup {Market(<<>>, market_lines) :
              market_lines \in SeqsUpTo(
                  {MarketLine(line, selections) :
                       line \in LineValues, selections \in LineSelections},
                  MaxLines)}

(* The market the mock data and the strategy's quotes are about. *)
MoneylineMarket ==
    Market(<<Selection("Team A", -120, 5, 7), Selection("Team B", 150, 3, 8)>>, <<>>)

(* An event with several markets: market['name'], market['id'] and the  *)
(* selections.  The selections of a market name the market they are of.  *)
MaxMarkets == 2

MarketNames == {"Moneyline", "Total", "Team Total"}

NamedMarket(name, id, selections) ==
    [name |-> name, id |-> id, selections |-> selections, market_lines |-> <<>>]

(* market.get('name', 'unknown').lower() *)
market_type(market) ==
    CASE market.name = "Moneyline" -> "moneyline"
      [] market.name = "Total" -> "total"
      [] market.name = "Team Total" -> "team total"

MarketQuotes(name) ==
    CASE name = "Moneyline" -> { <<Selection("Moneyline Home", -120, 5, 7)>>,
                                 <<Selection("Moneyline Home", -110, 5, 7)>> }
      [] name = "Total" -> { <<Selection("Total Over", -120, 5, 7)>>,
                             <<Selection("Total Over", -110, 5, 7)>> }
      [] name = "Team Total" -> { <<Selection("Team Total Over", -120, 5, 7)>>,
                                  <<Selection("Team Total Over", -110, 5, 7)>> }

MarketIdOf(name) ==
    CASE name = "Moneyline" -> 1
      [] name = "Total" -> 2
      [] name = "Team Total" -> 3

NamedMarkets ==
    UNION {{NamedMarket(name, MarketIdOf(name), selections) :
                selections \in MarketQuotes(name)} : name \in MarketNames}

(* event.markets: up to MaxMarkets markets, each name once. *)
EventMarkets ==
    {markets \in SeqsUpTo(NamedMarkets, MaxMarkets) :
        \A i, j \in 1..Len(markets) : markets[i].name = markets[j].name => i = j}

(* market_id = f"{event_id}_{market_type}_{market.get('id', 'unknown')}" *)
MarketKey(event_id, market) ==
    [event_id |-> event_id, market_type |-> market_type(market), id |-> market.id]

(* market_type in order_book.market_id: the text of the type occurs in   *)
(* the text of the key.  The digits of the ids hold no type; of the      *)
(* types, 'total' occurs in 'team total'.                                *)
TypeInKey(type, key) ==
    \/ type = key.market_type
    \/ type = "total" /\ key.market_type = "team total"

(* The first market, in the order of event.markets, whose type occurs in *)
(* the key of the book: <<>> when there is none.                         *)
MarketFound(markets, key) ==
    LET found == {i \in 1..Len(markets) : TypeInKey(market_type(markets[i]), key)}
    IN  IF found = {} THEN <<>>
        ELSE <<markets[CHOOSE i \in found : \A j \in found : i <= j]>>

(* The key of the event's order book in order_books:                     *)
(* f"{event_id}_{market_type}_{market id}"                               *)
BookId == "1001_moneyline_1"

----------------------------------------------------------------------------
(* Push events (exchanges/prophet_sports_api.py, data/market_data_manager.py) *)

(* Push events a run receives, and callbacks it subscribes. *)
MaxPushes == 2
MaxSubscribers == 2

(* The payload of a push envelope: what base64.b64decode(payload)        *)
(* .decode('utf-8') and json.loads make of it, and the fields of the     *)
(* decoded object.                                                       *)
(*   "empty"        no payload                                           *)
(*   "bad_padding"  b64decode raises binascii.Error                      *)
(*   "not_utf8"     the decoded bytes are not UTF-8                      *)
(*   "not_json"     the decoded text is not JSON                         *)
(*   "scalar"       the decoded text is JSON, but not an object          *)
(*   "object"       the decoded text is a JSON object                    *)
Payload(kind, type, sport_event_id, market_id, matched_stake, matched_odds, new_balance) ==
    [kind |-> kind, type |-> type, sport_event_id |-> sport_event_id,
     market_id |-> market_id, matched_stake |-> matched_stake,
     matched_odds |-> matched_odds, balance |-> new_balance]

NoObject(kind) == Payload(kind, "", None, None, None, None, None)

MarketObject(sport_event_id, market_id, matched_stake, matched_odds) ==
    Payload("object", "", sport_event_id, market_id, matched_stake, matched_odds, None)

PrivateObject(type, new_balance) ==
    Payload("object", type, None, None, None, None, new_balance)

(* args[0] of a push handler: json is whether json.loads(args[0]) returns. *)
Envelope(json, change_type, payload) ==
    [json |-> json, change_type |-> change_type, payload |-> payload]

(* The event and market the pushed updates name: the event is not one   *)
(* of sport_events.                                                      *)
PushedEvent == 777
PushedMarket == 3

PublicEnvelopes ==
    { Envelope(TRUE, "matched_bet", MarketObject(PushedEvent, PushedMarket, 25, -150)),
      Envelope(TRUE, "unknown", NoObject("not_json")),
      Envelope(TRUE, "matched_bet", NoObject("bad_padding")),
      Envelope(TRUE, "unknown", NoObject("scalar")) }

(* Public events of every change type, with both ids, without a market  *)
(* id and without any id, and one whose payload is not JSON.             *)
ChangeTypes == {"selections", "market_selections", "matched_bet", "market_line",
                "market_status"}

RoutedEnvelopes ==
    {Envelope(TRUE, change_type, MarketObject(ids[1], ids[2], 25, -150)) :
         change_type \in ChangeTypes,
         ids \in {<<PushedEvent, PushedMarket>>, <<PushedEvent, None>>, <<None, None>>}}
    \cup {Envelope(TRUE, "unknown", NoObject("not_json"))}

PrivateEnvelopes ==
    { Envelope(TRUE, "", PrivateObject("balance_update", 50)),
      Envelope(TRUE, "", NoObject("not_utf8")) }

(* base64.b64decode(payload).decode('utf-8') returns. *)
Decodes(payload) == payload.kind \notin {"bad_padding", "not_utf8"}

(* The dict process_update is given: the decoded object with its _meta,  *)
(* or the raw_data dict of a payload that is not JSON.                   *)
MarketUpdate(change_type, raw_data, payload) ==
    [change_type |-> change_type, raw_data |-> raw_data,
     sport_event_id |-> payload.sport_event_id, market_id |-> payload.market_id,
     matched_stake |-> payload.matched_stake, matched_odds |-> payload.matched_odds]

(* A coroutine _schedule_callback gives the event loop:                  *)
(* _trigger_callbacks(event_type, data). pc is "scheduled", "suspended"  *)
(* (in the await of a subscriber callback) or "done"; todo the           *)
(* notifications still to deliver (the first of them under way), notified *)
(* all those it passed to _notify_subscribers, cursor the position in    *)
(* subscribers of the callback awaited, refreshed the events whose books *)
(* it refreshed, delivered the calls of subscriber callbacks it has made, *)
(* raised the position of the first callback that raised (0: none).      *)
Scheduled(event_type, data) ==
    [event_type |-> event_type, data |-> data, pc |-> "scheduled", todo |-> <<>>,
     notified |-> <<>>, cursor |-> 0, refreshed |-> <<>>, delivered |-> <<>>,
     raised |-> 0]

(* ProphetSportsAPI._schedule_callback: the event loop is the one        *)
(* connect() stored, running.                                            *)
_schedule_callback(event_type, data) == <<Scheduled(event_type, data)>>

(* ProphetSportsAPI._handle_public_event: the coroutines it schedules. *)
_handle_public_event(envelope) ==
    IF ~envelope.json \/ envelope.payload.kind = "empty" THEN <<>>
    ELSE IF ~Decodes(envelope.payload) THEN <<>>
    ELSE IF envelope.payload.kind = "not_json"
         THEN _schedule_callback("market_data",
                                 MarketUpdate(envelope.change_type, TRUE, envelope.payload))
    ELSE IF envelope.payload.kind = "scalar" THEN <<>>
    ELSE _schedule_callback("market_data",
                            MarketUpdate(envelope.change_type, FALSE, envelope.payload))

(* ProphetSportsAPI._handle_private_event: the coroutines it schedules   *)
(* and the balance it leaves in self.balance.                            *)
_handle_private_event(envelope) ==
    LET payload == envelope.payload
        update == MarketUpdate(payload.type, payload.kind = "not_json", payload)
        dropped == [scheduled |-> <<>>, balance |-> balance]
    IN  IF ~envelope.json \/ payload.kind = "empty" THEN dropped
        ELSE IF ~Decodes(payload) THEN dropped
        ELSE IF payload.kind = "not_json"
             THEN [scheduled |-> _schedule_callback("wager_update", update),
                   balance |-> balance]
        ELSE IF payload.kind = "scalar" THEN dropped
        ELSE IF payload.type \in {"wager_update", "wager_placed", "wager_cancelled",
                                  "wager_matched"}
             THEN [scheduled |-> _schedule_callback("wager_update", update),
                   balance |-> balance]
        ELSE IF payload.type \in {"settlement", "wager_settled", "market_settled"}
             THEN [scheduled |-> _schedule_callback("settlement", update),
                   balance |-> balance]
        ELSE IF payload.type \in {"balance_update", "balance_change"}
             THEN [scheduled |-> _schedule_callback("balance_update", update),
                   balance |-> IF payload.balance # None THEN payload.balance
                               ELSE balance]
        ELSE [scheduled |-> _schedule_callback("wager_update", update),
              balance |-> balance]

(* A callback given to subscribe_to_updates: a coroutine function or a   *)
(* plain function.                                                       *)
Callbacks == {[coroutine |-> TRUE], [coroutine |-> FALSE]}

(* What a call of a subscriber callback does: a coroutine may suspend in *)
(* an await of its own.                                                  *)
Outcomes(callback) ==
    IF callback.coroutine THEN {"returns", "raises", "suspends"}
    ELSE {"returns", "raises"}

(* What the callbacks from position i of subscribers on do when called. *)
Behaviours(i) ==
    {outcome \in [i..Len(subscribers) -> {"returns", "raises", "suspends"}] :
        \A j \in i..Len(subscribers) : outcome[j] \in Outcomes(subscribers[j])}

(* What _notify_subscribers passes to the callbacks: update_type and the *)
(* data dict. The market_id of an order_book_update is that of the book  *)
(* in order_book.                                                        *)
Notification(update_type, event_id, market_id, data, trade, order_book) ==
    [update_type |-> update_type, event_id |-> event_id, market_id |-> market_id,
     data |-> data, trade |-> trade, order_book |-> order_book]

(* A call callback(update_type, data) of the callback at position i of   *)
(* subscribers.                                                          *)
Delivery(i, notification) == [position |-> i, notification |-> notification]

(* The state a pass of the delivery loop leaves: the calls made, the     *)
(* position of the callback awaited (0 when the loop has ended) and of   *)
(* the first callback that raised.                                       *)
Pass(calls_made, cursor, raised) ==
    [delivered |-> calls_made, cursor |-> cursor, raised |-> raised]

FirstRaised(raised, i, outcome) ==
    IF raised = 0 /\ outcome = "raises" THEN i ELSE raised

RECURSIVE _notify_subscribers_Aborting(_, _, _, _, _)
(* _notify_subscribers without the try: the first exception ends the loop. *)
_notify_subscribers_Aborting(notification, i, outcome, calls_made, raised) ==
    IF i > Len(subscribers) THEN Pass(calls_made, 0, raised)
    ELSE LET made == Append(calls_made, Delivery(i, notification))
         IN  IF outcome[i] = "suspends" THEN Pass(made, i, raised)
             ELSE IF outcome[i] = "raises" THEN Pass(made, 0, FirstRaised(raised, i, "raises"))
             ELSE _notify_subscribers_Aborting(notification, i + 1, outcome, made, raised)

RECURSIVE _notify_subscribers(_, _, _, _, _)
(* MarketDataManager._notify_subscribers from position i of subscribers  *)
(* on: each callback is called in turn; an exception is  *)
(* logged and the loop goes on; a coroutine callback that suspends       *)
(* leaves the loop waiting at its position.                              *)
_notify_subscribers(notification, i, outcome, calls_made, raised) ==
    IF i > Len(subscribers) THEN Pass(calls_made, 0, raised)
    ELSE LET made == Append(calls_made, Delivery(i, notification))
         IN  IF outcome[i] = "suspends" THEN Pass(made, i, raised)
             ELSE _notify_subscribers(notification, i + 1, outcome, made,
                                      FirstRaised(raised, i, outcome[i]))

RECURSIVE Notifications(_, _, _, _, _, _)
(* The calls of _notify_subscribers a coroutine still has to make, from  *)
(* position i of the first one, up to the first callback that suspends.  *)
(* first is what the callbacks do for the first one, later[k] for the    *)
(* one with k left after it.                                             *)
Notifications(todo, i, first, later, calls_made, raised) ==
    IF todo = <<>> THEN [delivered |-> calls_made, todo |-> <<>>, cursor |-> 0,
                         raised |-> raised]
    ELSE LET pass == _notify_subscribers(Head(todo), i, first, calls_made, raised)
         IN  IF pass.cursor > 0
             THEN [delivered |-> pass.delivered, todo |-> todo, cursor |-> pass.cursor,
                   raised |-> pass.raised]
             ELSE IF Len(todo) = 1
             THEN [delivered |-> pass.delivered, todo |-> <<>>, cursor |-> 0,
                   raised |-> pass.raised]
             ELSE Notifications(Tail(todo), 1, later[Len(todo) - 1], later,
                                pass.delivered, pass.raised)

(* current_data[event_id], {} when the event has none yet. *)
NoData == [selections |-> <<>>, trades |-> <<>>, market_lines |-> EmptyMap,
           last_generic_update |-> <<>>]

EventData(event_id) ==
    IF event_id \in DOMAIN current_data THEN current_data[event_id] ELSE NoData

(* "not event_id": None or 0. *)
Missing(id) == id = None \/ id = 0

(* What processing an update leaves: current_data, order_books, the      *)
(* events refreshed and the notifications to deliver, in order.          *)
Processed(data, books, refreshed, notifications) ==
    [current_data |-> data, order_books |-> books, refreshed |-> refreshed,
     notifications |-> notifications]

(* self.event_order_books.get(event_id, []): the keys of the books that  *)
(* initialize_order_books made for the event.                            *)
event_order_books(event_id) ==
    IF event_id \in EventIds THEN {BookId} \cap DOMAIN order_books ELSE {}

(* MarketDataManager._refresh_event_order_books(event_id), reading the   *)
(* market data sport_events holds: the books and the order_book_update   *)
(* notifications.                                                        *)
_refresh_event_order_books(event_id) ==
    IF event_id \notin DOMAIN sport_events \/ BookId \notin DOMAIN order_books
    THEN [order_books |-> order_books, notifications |-> <<>>]
    ELSE LET order_book == Refreshed(order_books[BookId], sport_events[event_id])
         IN  [order_books |-> [order_books EXCEPT ![BookId] = order_book],
              notifications |-> <<Notification("order_book_update", event_id, None,
                                               <<>>, <<>>, <<order_book>>)>>]

(* The last 50 trades. *)
RecentTrades(trades) ==
    IF Len(trades) > 50 THEN SubSeq(trades, Len(trades) - 49, Len(trades)) ELSE trades

(* MarketDataManager._process_selection_update *)
_process_selection_update(data, event_id, market_id) ==
    IF Missing(event_id) \/ Missing(market_id)
    THEN Processed(current_data, order_books, <<>>, <<>>)
    ELSE LET refresh == _refresh_event_order_books(event_id)
         IN  Processed(MapSet(current_data, event_id,
                              [EventData(event_id) EXCEPT !.selections = <<data>>]),
                       refresh.order_books, <<event_id>>,
                       refresh.notifications \o
                       <<Notification("selection_update", event_id, market_id,
                                      <<data>>, <<>>, <<>>)>>)

(* _process_trade_update without the refresh of the event's books *)
_process_trade_update_NoRefresh(data, event_id, market_id) ==
    IF Missing(event_id) \/ Missing(market_id)
    THEN Processed(current_data, order_books, <<>>, <<>>)
    ELSE LET trade_data == [market_id |-> market_id, odds |-> data.matched_odds,
                            stake |-> data.matched_stake]
         IN  Processed(MapSet(current_data, event_id,
                              [EventData(event_id) EXCEPT
                                 !.trades = RecentTrades(Append(@, trade_data))]),
                       order_books, <<>>,
                       <<Notification("trade_update", event_id, market_id, <<>>,
                                      <<trade_data>>, <<>>)>>)

(* MarketDataManager._process_trade_update *)
_process_trade_update(data, event_id, market_id) ==
    IF Missing(event_id) \/ Missing(market_id)
    THEN Processed(current_data, order_books, <<>>, <<>>)
    ELSE LET trade_data == [market_id |-> market_id, odds |-> data.matched_odds,
                            stake |-> data.matched_stake]
             refresh == _refresh_event_order_books(event_id)
         IN  Processed(MapSet(current_data, event_id,
                              [EventData(event_id) EXCEPT
                                 !.trades = RecentTrades(Append(@, trade_data))]),
                       refresh.order_books, <<event_id>>,
                       refresh.notifications \o
                       <<Notification("trade_update", event_id, market_id, <<>>,
                                      <<trade_data>>, <<>>)>>)

(* MarketDataManager._process_market_line_update *)
_process_market_line_update(data, event_id, market_id) ==
    IF Missing(event_id) \/ Missing(market_id)
    THEN Processed(current_data, order_books, <<>>, <<>>)
    ELSE LET refresh == _refresh_event_order_books(event_id)
         IN  Processed(MapSet(current_data, event_id,
                              [EventData(event_id) EXCEPT
                                 !.market_lines = MapSet(@, market_id, data)]),
                       refresh.order_books, <<event_id>>,
                       refresh.notifications \o
                       <<Notification("market_line_update", event_id, market_id,
                                      <<data>>, <<>>, <<>>)>>)

(* MarketDataManager._process_generic_update *)
_process_generic_update(data, event_id, market_id) ==
    LET refresh == _refresh_event_order_books(event_id)
    IN  Processed(MapSet(current_data, event_id,
                         [EventData(event_id) EXCEPT !.last_generic_update = <<data>>]),
                  refresh.order_books, <<event_id>>,
                  refresh.notifications \o
                  <<Notification("market_data_update", event_id, market_id,
                                 <<data>>, <<>>, <<>>)>>)

(* process_update that takes a market_line update for a generic one *)
process_update_LineAsGeneric(data) ==
    IF data.change_type \in {"selections", "market_selections"}
    THEN _process_selection_update(data, data.sport_event_id, data.market_id)
    ELSE IF data.change_type = "matched_bet"
    THEN _process_trade_update(data, data.sport_event_id, data.market_id)
    ELSE IF ~Missing(data.sport_event_id)
    THEN _process_generic_update(data, data.sport_event_id, data.market_id)
    ELSE Processed(current_data, order_books, <<>>,
                   <<Notification("market_data_update", None, None, <<data>>,
                                  <<>>, <<>>)>>)

(* MarketDataManager.process_update for a dict: the route its            *)
(* change_type takes.                                                    *)
process_update(data) ==
    IF data.change_type \in {"selections", "market_selections"}
    THEN _process_selection_update(data, data.sport_event_id, data.market_id)
    ELSE IF data.change_type = "matched_bet"
    THEN _process_trade_update(data, data.sport_event_id, data.market_id)
    ELSE IF data.change_type = "market_line"
    THEN _process_market_line_update(data, data.sport_event_id, data.market_id)
    ELSE IF ~Missing(data.sport_event_id)
    THEN _process_generic_update(data, data.sport_event_id, data.market_id)
    ELSE Processed(current_data, order_books, <<>>,
                   <<Notification("market_data_update", None, None, <<data>>,
                                  <<>>, <<>>)>>)

(* ProphetSportsAPI._trigger_callbacks(event_type, data): the platform's *)
(* callback of market_data is _on_market_data_update, which calls        *)
(* process_update; the callbacks of the private events only log.         *)
_trigger_callbacks(event_type, data) ==
    IF event_type = "market_data" THEN process_update(data)
    ELSE Processed(current_data, order_books, <<>>, <<>>)

(* Subscribers that can be told apart, for the delivery loop over a list *)
(* that changes while it runs: each is subscribed at most once.          *)
NamedCallbacks ==
    { [name |-> "on_book", coroutine |-> TRUE],
      [name |-> "on_trade", coroutine |-> FALSE],
      [name |-> "on_line", coroutine |-> FALSE] }

CallbackNames == {callback.name : callback \in NamedCallbacks}

(* Calls of _notify_subscribers a run makes. *)
MaxNotifies == 1

(* What a named callback does when called: it returns, it unsubscribes   *)
(* itself and returns, or (a coroutine) it suspends in an await.         *)
NamedBehaviours ==
    {behaviour \in [CallbackNames -> {"returns", "unsubscribes", "suspends"}] :
        \A callback \in NamedCallbacks :
            behaviour[callback.name] = "suspends" => callback.coroutine}

(* self.subscribers.remove(callback): the first entry equal to it. *)
Remove(callbacks, callback) ==
    IF \E i \in 1..Len(callbacks) : callbacks[i] = callback
    THEN LET at == CHOOSE i \in 1..Len(callbacks) :
                       /\ callbacks[i] = callback
                       /\ \A j \in 1..(i - 1) : callbacks[j] # callback
         IN  SubSeq(callbacks, 1, at - 1) \o SubSeq(callbacks, at + 1, Len(callbacks))
    ELSE callbacks

(* A call of _notify_subscribers: whether it is under way, the position  *)
(* of the callback it awaits (0: none), the names of the callbacks it    *)
(* has called, those subscribed since it began and not unsubscribed      *)
(* meanwhile, and the calls begun so far.                                *)
Notifying(running, cursor, called, stayed, runs) ==
    [running |-> running, cursor |-> cursor, called |-> called, stayed |-> stayed,
     runs |-> runs]

NotNotifying == Notifying(FALSE, 0, <<>>, {}, 0)

(* for callback in self.subscribers, from position i on: the list        *)
(* iterator keeps a position and reads the list as it is at each turn.   *)
RECURSIVE Deliver(_, _, _, _, _)
Deliver(callbacks, i, behaviour, called, stayed) ==
    IF i > Len(callbacks)
    THEN [subscribers |-> callbacks, cursor |-> 0, called |-> called, stayed |-> stayed]
    ELSE LET callback == callbacks[i]
             made == Append(called, callback.name)
         IN  IF behaviour[callback.name] = "suspends"
             THEN [subscribers |-> callbacks, cursor |-> i, called |-> made,
                   stayed |-> stayed]
             ELSE IF behaviour[callback.name] = "unsubscribes"
             THEN Deliver(Remove(callbacks, callback), i + 1, behaviour, made,
                          stayed \ {callback.name})
             ELSE Deliver(callbacks, i + 1, behaviour, made, stayed)

----------------------------------------------------------------------------
(* The state when MarketMakingPlatform.start() has built the components  *)
(* and _start_strategies has started the strategy (whatever dry_run is).  *)
Init ==
    /\ settings \in SettingsChoices
    /\ is_active = TRUE
    /\ active_wagers = <<>>
    /\ wager_history = <<>>
    /\ pending_placements = EmptyMap
    /\ pending_cancellations = EmptyMap
    /\ total_placed = 0
    /\ total_cancelled = 0
    /\ api_wagers = EmptyMap
    /\ stats = [total_wagers_placed |-> 0, total_wagers_cancelled |-> 0]
    /\ next_uuid = 1
    /\ calls = 0
    /\ inflight = EmptyBag
    /\ last = Outcome("init", NoWager(0), TRUE, TRUE, "")
    /\ held = NoSnapshot
    /\ notifying = NotNotifying
    /\ sport_events = [event_id \in EventIds |-> MoneylineMarket]
    /\ order_books = EmptyMap
    /\ compared = Compared(None, None)
    /\ subscribers = <<>>
    /\ current_data = EmptyMap
    /\ total_updates = 0
    /\ balance = 0
    /\ pushed = 0
    /\ loop_tasks = <<>>

(* An operation is called: one more of the MaxCalls of a run. *)
Called ==
    /\ calls < MaxCalls
    /\ calls' = calls + 1

(* self.pending_placements.pop(wager.external_id, None), on the way out   *)
(* of place_wager                                                         *)
RemovePending_Forgotten(pending, external_id) == pending

RemovePending(pending, external_id) == MapPop(pending, external_id)

(* WagerManager.place_wager up to its await of api.place_wager. *)
place_wager(op, wager, strategy_name, event_id, risk_checked) ==
    IF ~_validate_wager(wager)
    THEN /\ last' = Outcome(op, wager, TRUE, FALSE, "validation")
         /\ UNCHANGED <<managerVars, inflight>>
    ELSE IF ~_check_position_limits(wager)
    THEN /\ last' = Outcome(op, wager, TRUE, FALSE, "position_limits")
         /\ UNCHANGED <<managerVars, inflight>>
    ELSE /\ pending_placements' = MapSet(pending_placements, wager.external_id, wager)
         /\ Suspend(Call("place_wager", "wager_manager", wager, strategy_name,
                         event_id, risk_checked, TRUE))
         /\ last' = Outcome(op, wager, FALSE, FALSE, "")
         /\ UNCHANGED <<active_wagers, wager_history, pending_cancellations,
                        total_placed, total_cancelled>>

(* A caller of WagerManager.place_wager with a Wager of its own making:   *)
(* the id is a new one or one used before.                                 *)
PlaceWager ==
    \E external_id \in 1..next_uuid, odds \in Odds, stake \in Stakes :
        /\ Called
        /\ next_uuid' = IF external_id = next_uuid THEN next_uuid + 1 ELSE next_uuid
        /\ place_wager("place_wager", Wager(external_id, odds, stake), "caller",
                       NoEvent, FALSE)
        /\ UNCHANGED <<marketVars, pushVars, settings, held, notifying, is_active, api_wagers, stats>>

(* The rest of WagerManager.place_wager, from the HTTP response on:       *)
(* api.place_wager records the id and returns it, or returns None.        *)
PlaceWagerResponse ==
    \E c \in InFlight("place_wager", "wager_manager"), response \in Responses,
       wager_id \in WagerIds :
        /\ Resume(c)
        /\ IF response = 200
           THEN /\ api_wagers' = MapSet(api_wagers, c.wager.external_id, wager_id)
                /\ active_wagers' = DictSet(active_wagers,
                       WagerRecord(total_placed + 1, c.wager, c.strategy_name, c.event_id))
                /\ total_placed' = total_placed + 1
                /\ last' = Outcome("place_wager", c.wager, TRUE, TRUE, "placed")
           ELSE /\ UNCHANGED <<api_wagers, active_wagers, total_placed>>
                /\ last' = Outcome("place_wager", c.wager, TRUE, FALSE, "transport")
        /\ pending_placements' = RemovePending(pending_placements, c.wager.external_id)
        /\ UNCHANGED <<marketVars, pushVars, settings, held, notifying, is_active, wager_history, pending_cancellations,
                       total_cancelled, stats, next_uuid, calls>>

(* SimpleMarketMaker.refresh_quotes, for one event with a moneyline       *)
(* market: create_wager with a new uuid, odds from the ladder and a stake *)
(* in [1, max_position / 10]; the risk check; then the WagerManager.      *)
RefreshQuotes ==
    \E odds \in valid_odds, stake \in Stakes, event_id \in EventIds :
        /\ is_active
        /\ 1 <= stake /\ stake * 10 <= settings.strategy.max_position
        /\ Called
        /\ next_uuid' = next_uuid + 1
        /\ LET wager == Wager(next_uuid, odds, stake) IN
           IF check_wager_risk(wager, event_id)
           THEN place_wager("refresh_quotes", wager, "simple_market_maker",
                            event_id, TRUE)
           ELSE /\ last' = Outcome("refresh_quotes", wager, TRUE, FALSE, "risk")
                /\ UNCHANGED <<managerVars, inflight>>
        /\ UNCHANGED <<marketVars, pushVars, settings, held, notifying, is_active, api_wagers, stats>>

(* The api.cancel_wager part of a cancellation response: 200 and 404      *)
(* (already cancelled) drop the id from the id map and report success.    *)
CancelSucceeds(response) == response \in {200, 404}

(* cancel_wager without the look-up in active_wagers *)
cancel_wager_NoLookup(external_id) ==
    LET wager == NoWager(external_id) IN
    /\ IF external_id \notin DOMAIN api_wagers
       THEN /\ pending_cancellations' = MapPop(pending_cancellations, external_id)
            /\ last' = Outcome("cancel_wager", wager, TRUE, FALSE, "api_not_found")
            /\ UNCHANGED inflight
       ELSE /\ pending_cancellations' =
                   MapSet(pending_cancellations, external_id, "strategy_request")
            /\ Suspend(Call("cancel_wager", "wager_manager", wager, "", NoEvent,
                            FALSE, FALSE))
            /\ last' = Outcome("cancel_wager", wager, FALSE, FALSE, "")
    /\ UNCHANGED <<active_wagers, wager_history, pending_placements, total_placed,
                   total_cancelled, api_wagers>>

(* WagerManager.cancel_wager up to its await.  api.cancel_wager returns   *)
(* False without a request when the id is not in its id map.              *)
cancel_wager(external_id) ==
    LET wager == NoWager(external_id) IN
    /\ IF external_id \notin DictKeys(active_wagers)
       THEN /\ last' = Outcome("cancel_wager", wager, TRUE, FALSE, "not_found")
            /\ UNCHANGED <<pending_cancellations, inflight>>
       ELSE IF external_id \notin DOMAIN api_wagers
       THEN /\ pending_cancellations' = MapPop(pending_cancellations, external_id)
            /\ last' = Outcome("cancel_wager", wager, TRUE, FALSE, "api_not_found")
            /\ UNCHANGED inflight
       ELSE /\ pending_cancellations' =
                   MapSet(pending_cancellations, external_id, "strategy_request")
            /\ Suspend(Call("cancel_wager", "wager_manager", wager, "", NoEvent,
                            FALSE, FALSE))
            /\ last' = Outcome("cancel_wager", wager, FALSE, FALSE, "")
    /\ UNCHANGED <<active_wagers, wager_history, pending_placements, total_placed,
                   total_cancelled, api_wagers>>

(* A call of WagerManager.cancel_wager, for an id in use or for the next  *)
(* one, which no wager has yet.                                           *)
CancelWager ==
    \E external_id \in 1..next_uuid :
        /\ Called
        /\ cancel_wager(external_id)
        /\ UNCHANGED <<marketVars, pushVars, settings, held, notifying, is_active, stats, next_uuid>>

(* The record as cancel_wager and cancel_all_wagers leave it. *)
(* A move to history that leaves the status as it was *)
Cancelled_StatusKept(record) == record

Cancelled(record) == [record EXCEPT !.wager.status = CANCELLED]

(* The rest of WagerManager.cancel_wager.  active_wagers.pop raises       *)
(* KeyError when the id has left the active set meanwhile; the handler    *)
(* then drops the pending entry and returns False.                        *)
cancel_wager_response(c, response) ==
    LET external_id == c.wager.external_id IN
    /\ Resume(c)
    /\ IF CancelSucceeds(response)
       THEN /\ api_wagers' = MapPop(api_wagers, external_id)
            /\ IF external_id \in DictKeys(active_wagers)
               THEN /\ active_wagers' = DictPop(active_wagers, external_id)
                    /\ wager_history' = Append(wager_history,
                           Cancelled(DictGet(active_wagers, external_id)))
                    /\ total_cancelled' = total_cancelled + 1
                    /\ last' = Outcome("cancel_wager", c.wager, TRUE, TRUE, "cancelled")
               ELSE /\ UNCHANGED <<active_wagers, wager_history, total_cancelled>>
                    /\ last' = Outcome("cancel_wager", c.wager, TRUE, FALSE, "exception")
       ELSE /\ UNCHANGED <<api_wagers, active_wagers, wager_history, total_cancelled>>
            /\ last' = Outcome("cancel_wager", c.wager, TRUE, FALSE, "transport")
    /\ pending_cancellations' = MapPop(pending_cancellations, external_id)
    /\ UNCHANGED <<pending_placements, total_placed>>

CancelWagerResponse ==
    \E c \in InFlight("cancel_wager", "wager_manager"), response \in Responses :
        /\ cancel_wager_response(c, response)
        /\ UNCHANGED <<marketVars, pushVars, settings, held, notifying, is_active, stats, next_uuid, calls>>

(* WagerManager.cancel_all_wagers up to its await. *)
CancelAllWagers ==
    /\ Called
    /\ Suspend(CancelAllCall(active_wagers))
    /\ last' = Outcome("cancel_all_wagers", NoWager(0), FALSE, FALSE, "")
    /\ UNCHANGED <<marketVars, pushVars, settings, held, notifying, is_active, managerVars, api_wagers, stats, next_uuid>>

(* A loop that appends every record twice *)
RECURSIVE MoveAllToHistory_Twice(_, _)
MoveAllToHistory_Twice(records, history) ==
    IF records = <<>> THEN history
    ELSE MoveAllToHistory_Twice(Tail(records),
             Append(Append(history, Cancelled(Head(records))), Cancelled(Head(records))))

(* for ... in self.active_wagers.items(): mark and append to history *)
RECURSIVE MoveAllToHistory(_, _)
MoveAllToHistory(records, history) ==
    IF records = <<>> THEN history
    ELSE MoveAllToHistory(Tail(records), Append(history, Cancelled(Head(records))))

(* The rest of WagerManager.cancel_all_wagers: api.cancel_all_wagers      *)
(* clears its id map on 200, reports success on 200 and 404.              *)
CancelAllWagersResponse ==
    \E c \in InFlight("cancel_all_wagers", "wager_manager"), response \in Responses :
        /\ Resume(c)
        /\ api_wagers' = IF response = 200 THEN EmptyMap ELSE api_wagers
        /\ IF response \in {200, 404}
           THEN /\ wager_history' = MoveAllToHistory(active_wagers, wager_history)
                /\ total_cancelled' = total_cancelled + Len(active_wagers)
                /\ active_wagers' = clear(active_wagers)
                /\ last' = Outcome("cancel_all_wagers", NoWager(0), TRUE, TRUE,
                                   "cancelled")
           ELSE /\ UNCHANGED <<active_wagers, wager_history, total_cancelled>>
                /\ last' = Outcome("cancel_all_wagers", NoWager(0), TRUE, FALSE,
                                   "transport")
        /\ UNCHANGED <<marketVars, pushVars, settings, held, notifying, is_active, pending_placements, pending_cancellations,
                       total_placed, stats, next_uuid, calls>>

(* MarketMakingPlatform.place_manual_wager up to its await: nothing in a  *)
(* dry run, else create_wager and api.place_wager directly.               *)
PlaceManualWager ==
    \E odds \in ManualOdds, stake \in ManualStakes :
        /\ Called
        /\ IF settings.trading.dry_run
           THEN /\ last' = Outcome("place_manual_wager", Wager(0, odds, stake), TRUE,
                                   FALSE, "dry_run")
                /\ UNCHANGED <<next_uuid, inflight>>
           ELSE /\ next_uuid' = next_uuid + 1
                /\ Suspend(Call("place_wager", "platform", Wager(next_uuid, odds, stake),
                                "", NoEvent, FALSE, FALSE))
                /\ last' = Outcome("place_manual_wager", Wager(next_uuid, odds, stake),
                                   FALSE, FALSE, "")
        /\ UNCHANGED <<marketVars, pushVars, settings, held, notifying, is_active, managerVars, api_wagers, stats>>

(* The rest of place_manual_wager. *)
PlaceManualWagerResponse ==
    \E c \in InFlight("place_wager", "platform"), response \in Responses,
       wager_id \in WagerIds :
        /\ Resume(c)
        /\ IF response = 200
           THEN /\ api_wagers' = MapSet(api_wagers, c.wager.external_id, wager_id)
                /\ stats' = [stats EXCEPT !.total_wagers_placed = @ + 1]
                /\ last' = Outcome("place_manual_wager", c.wager, TRUE, TRUE, "placed")
           ELSE /\ UNCHANGED <<api_wagers, stats>>
                /\ last' = Outcome("place_manual_wager", c.wager, TRUE, FALSE,
                                   "transport")
        /\ UNCHANGED <<marketVars, pushVars, settings, held, notifying, is_active, managerVars, next_uuid, calls>>

(* MarketMakingPlatform.cancel_manual_wager up to its await. *)
CancelManualWager ==
    \E external_id \in 1..next_uuid :
        /\ Called
        /\ LET wager == NoWager(external_id) IN
           IF settings.trading.dry_run
           THEN /\ last' = Outcome("cancel_manual_wager", wager, TRUE, TRUE, "dry_run")
                /\ UNCHANGED inflight
           ELSE IF external_id \notin DOMAIN api_wagers
           THEN /\ last' = Outcome("cancel_manual_wager", wager, TRUE, FALSE,
                                   "api_not_found")
                /\ UNCHANGED inflight
           ELSE /\ Suspend(Call("cancel_wager", "platform", wager, "", NoEvent,
                                FALSE, FALSE))
                /\ last' = Outcome("cancel_manual_wager", wager, FALSE, FALSE, "")
        /\ UNCHANGED <<marketVars, pushVars, settings, held, notifying, is_active, managerVars, api_wagers, stats, next_uuid>>

(* The rest of cancel_manual_wager. *)
CancelManualWagerResponse ==
    \E c \in InFlight("cancel_wager", "platform"), response \in Responses :
        /\ Resume(c)
        /\ IF CancelSucceeds(response)
           THEN /\ api_wagers' = MapPop(api_wagers, c.wager.external_id)
                /\ stats' = [stats EXCEPT !.total_wagers_cancelled = @ + 1]
                /\ last' = Outcome("cancel_manual_wager", c.wager, TRUE, TRUE,
                                   "cancelled")
           ELSE /\ UNCHANGED <<api_wagers, stats>>
                /\ last' = Outcome("cancel_manual_wager", c.wager, TRUE, FALSE,
                                   "transport")
        /\ UNCHANGED <<marketVars, pushVars, settings, held, notifying, is_active, managerVars, next_uuid, calls>>

(* WagerManager.get_active_wagers, called by a consumer that keeps the   *)
(* result: list(self.active_wagers.values()) is a new list of the        *)
(* WagerRecord objects the dict holds.                                   *)
GetActiveWagers ==
    /\ ~held.taken
    /\ held' = Snapshot(get_active_wagers)
    /\ last' = Outcome("get_active_wagers", NoWager(0), TRUE, TRUE, "")
    /\ UNCHANGED <<marketVars, pushVars, settings, notifying, is_active, managerVars,
                   api_wagers, stats, next_uuid, calls, inflight>>

(* Stakes of the wagers the risk gate is asked about: a usual one and    *)
(* one of max_position_size.                                             *)
RiskStakes == {10, 100}

(* What a call of check_wager_risk did: an Outcome with the stake of the *)
(* wager and the event id of the market context.                         *)
RiskOutcome(wager, event_id, ok) ==
    [op |-> "check_wager_risk", external_id |-> wager.external_id, returned |-> TRUE,
     ok |-> ok, why |-> "", stake |-> wager.stake, event_id |-> event_id]

(* RiskManager.check_wager_risk(wager, market_context), event_id =       *)
(* NoEvent for a call without a market context or without an event id   *)
(* in it: a read of the manager's exposure, nothing is written.          *)
CheckWagerRisk ==
    \E odds \in valid_odds, stake \in RiskStakes, event_id \in EventIds \cup {NoEvent} :
        /\ Called
        /\ LET wager == Wager(next_uuid, odds, stake)
           IN  last' = RiskOutcome(wager, event_id, check_wager_risk(wager, event_id))
        /\ UNCHANGED <<marketVars, pushVars, settings, held, notifying, is_active, managerVars,
                       api_wagers, stats, next_uuid, inflight>>

(* What a wager update of the exchange says about a wager. *)
UpdateStatuses == {MATCHED, SETTLED, "unknown"}

(* platform._on_wager_update with a status event of the exchange for an  *)
(* external id: it awaits WagerManager.process_update, which logs the    *)
(* event at debug level and returns None; neither parses the event nor   *)
(* touches a record or a counter.                                        *)
ProcessUpdate ==
    \E external_id \in ExternalIds, status \in UpdateStatuses :
        /\ Called
        /\ last' = Outcome("process_update", NoWager(external_id), TRUE, FALSE, status)
        /\ UNCHANGED <<marketVars, pushVars, settings, held, notifying, is_active, managerVars,
                       api_wagers, stats, next_uuid, inflight>>

----------------------------------------------------------------------------
(* Market data: the operations *)

(* A call of MarketDataManager._is_better_odds. *)
IsBetterOdds ==
    \E new_odds \in OddsRange, current_odds \in OddsRange :
        /\ compared' = Compared(new_odds, current_odds)
        /\ UNCHANGED <<tradingVars, pushVars, sport_events, order_books>>

(* MarketDataManager.initialize_order_books, for the one market of the   *)
(* one event, with the market data the exchange client has loaded        *)
(* (_load_events_and_markets).                                           *)
InitializeOrderBooks ==
    \E market \in Markets, event_id \in EventIds :
        /\ BookId \notin DOMAIN order_books
        /\ sport_events' = [sport_events EXCEPT ![event_id] = market]
        /\ order_books' = MapSet(order_books, BookId, Refreshed(OrderBook, market))
        /\ UNCHANGED <<tradingVars, pushVars, compared>>

(* initialize_order_books for a market that is quoted by lines only. *)
InitializeLineBooks ==
    \E market \in LineMarkets, event_id \in EventIds :
        /\ BookId \notin DOMAIN order_books
        /\ sport_events' = [sport_events EXCEPT ![event_id] = market]
        /\ order_books' = MapSet(order_books, BookId, Refreshed(OrderBook, market))
        /\ UNCHANGED <<tradingVars, pushVars, compared>>

(* initialize_order_books for a market of one line with depth. *)
InitializeDepthBooks ==
    \E market \in DepthMarkets, event_id \in EventIds :
        /\ BookId \notin DOMAIN order_books
        /\ sport_events' = [sport_events EXCEPT ![event_id] = market]
        /\ order_books' = MapSet(order_books, BookId, Refreshed(OrderBook, market))
        /\ UNCHANGED <<tradingVars, pushVars, compared>>

(* initialize_order_books for an event with several markets: one book   *)
(* for each market type, made from the first market of the type.         *)
InitializeEventBooks ==
    \E markets \in EventMarkets, event_id \in EventIds :
        /\ order_books = EmptyMap
        /\ sport_events' = [sport_events EXCEPT ![event_id] = markets]
        /\ order_books' =
              [key \in {MarketKey(event_id, markets[i]) : i \in 1..Len(markets)} |->
                  Refreshed(OrderBook,
                            markets[CHOOSE i \in 1..Len(markets) :
                                        MarketKey(event_id, markets[i]) = key])]
        /\ UNCHANGED <<tradingVars, pushVars, compared>>

(* _refresh_event_order_books for an event with several markets, with    *)
(* the markets the exchange client holds when it runs: every book of the *)
(* event is refreshed from the market found for it.                      *)
RefreshEventBooks ==
    \E markets \in EventMarkets, event_id \in EventIds :
        /\ order_books # EmptyMap
        /\ sport_events' = [sport_events EXCEPT ![event_id] = markets]
        /\ order_books' =
              [key \in DOMAIN order_books |->
                  LET found == MarketFound(markets, key)
                  IN  IF found = <<>> THEN order_books[key]
                      ELSE Refreshed(order_books[key], found[1])]
        /\ UNCHANGED <<tradingVars, pushVars, compared>>

(* MarketDataManager._refresh_event_order_books for the event, with the  *)
(* market data the exchange client holds when it runs.                   *)
RefreshEventOrderBooks ==
    \E market \in Markets, event_id \in EventIds :
        /\ BookId \in DOMAIN order_books
        /\ sport_events' = [sport_events EXCEPT ![event_id] = market]
        /\ order_books' = [order_books EXCEPT ![BookId] = Refreshed(@, market)]
        /\ UNCHANGED <<tradingVars, pushVars, compared>>

----------------------------------------------------------------------------
(* Push events: the operations *)

(* MarketDataManager.subscribe_to_updates *)
Subscribe ==
    \E callback \in Callbacks :
        /\ Len(subscribers) < MaxSubscribers
        /\ subscribers' = Append(subscribers, callback)
        /\ UNCHANGED <<tradingVars, marketVars, current_data, total_updates, balance,
                       pushed, loop_tasks>>

(* Another task may run when no delivery loop is under way or when the   *)
(* loop waits in the await of a coroutine callback.                      *)
LoopYields == ~notifying.running \/ notifying.cursor > 0

(* MarketDataManager.subscribe_to_updates with a named callback. *)
SubscribeNamed ==
    \E callback \in NamedCallbacks :
        /\ LoopYields
        /\ Len(subscribers) < MaxSubscribers
        /\ \A i \in 1..Len(subscribers) : subscribers[i] # callback
        /\ subscribers' = Append(subscribers, callback)
        /\ UNCHANGED <<tradingVars, marketVars, current_data, total_updates, balance,
                       pushed, loop_tasks>>

(* MarketDataManager.unsubscribe_from_updates *)
Unsubscribe ==
    \E callback \in NamedCallbacks :
        /\ LoopYields
        /\ \E i \in 1..Len(subscribers) : subscribers[i] = callback
        /\ subscribers' = Remove(subscribers, callback)
        /\ notifying' = [notifying EXCEPT !.stayed = @ \ {callback.name}]
        /\ UNCHANGED <<settings, held, is_active, managerVars, api_wagers, stats,
                       next_uuid, calls, inflight, last, marketVars, current_data,
                       total_updates, balance, pushed, loop_tasks>>

(* A call of _notify_subscribers begins and runs up to the first         *)
(* callback that suspends.                                               *)
NotifySubscribers ==
    \E behaviour \in NamedBehaviours :
        /\ ~notifying.running
        /\ notifying.runs < MaxNotifies
        /\ LET left == Deliver(subscribers, 1, behaviour, <<>>,
                               {subscribers[i].name : i \in 1..Len(subscribers)})
           IN  /\ subscribers' = left.subscribers
               /\ notifying' = Notifying(left.cursor > 0, left.cursor, left.called,
                                         left.stayed, notifying.runs + 1)
        /\ UNCHANGED <<settings, held, is_active, managerVars, api_wagers, stats,
                       next_uuid, calls, inflight, last, marketVars, current_data,
                       total_updates, balance, pushed, loop_tasks>>

(* The callback awaited returns and the loop goes on after its position. *)
ResumeNotify ==
    \E behaviour \in NamedBehaviours :
        /\ notifying.running
        /\ LET left == Deliver(subscribers, notifying.cursor + 1, behaviour,
                               notifying.called, notifying.stayed)
           IN  /\ subscribers' = left.subscribers
               /\ notifying' = Notifying(left.cursor > 0, left.cursor, left.called,
                                         left.stayed, notifying.runs)
        /\ UNCHANGED <<settings, held, is_active, managerVars, api_wagers, stats,
                       next_uuid, calls, inflight, last, marketVars, current_data,
                       total_updates, balance, pushed, loop_tasks>>

(* The Pusher thread calls _handle_public_event with an envelope. *)
HandlePublicEvent ==
    \E envelope \in PublicEnvelopes :
        /\ pushed < MaxPushes
        /\ pushed' = pushed + 1
        /\ loop_tasks' = loop_tasks \o _handle_public_event(envelope)
        /\ UNCHANGED <<tradingVars, marketVars, subscribers, current_data,
                       total_updates, balance>>

(* The Pusher thread calls _handle_public_event with an envelope of any  *)
(* change type.                                                          *)
HandleRoutedEvent ==
    \E envelope \in RoutedEnvelopes :
        /\ pushed < MaxPushes
        /\ pushed' = pushed + 1
        /\ loop_tasks' = loop_tasks \o _handle_public_event(envelope)
        /\ UNCHANGED <<tradingVars, marketVars, subscribers, current_data,
                       total_updates, balance>>

(* The Pusher thread calls _handle_private_event with an envelope. *)
HandlePrivateEvent ==
    \E envelope \in PrivateEnvelopes :
        /\ pushed < MaxPushes
        /\ pushed' = pushed + 1
        /\ loop_tasks' = loop_tasks \o _handle_private_event(envelope).scheduled
        /\ balance' = _handle_private_event(envelope).balance
        /\ UNCHANGED <<tradingVars, marketVars, subscribers, current_data,
                       total_updates>>

(* The event loop starts the oldest scheduled coroutine: it runs         *)
(* _trigger_callbacks up to the first subscriber callback that suspends. *)
TriggerCallbacks ==
    \E n \in 1..Len(loop_tasks) :
        /\ loop_tasks[n].pc = "scheduled"
        /\ \A m \in 1..(n - 1) : loop_tasks[m].pc # "scheduled"
        /\ LET task == loop_tasks[n]
               processed == _trigger_callbacks(task.event_type, task.data)
           IN  \E first \in Behaviours(1),
                  later \in [1..(Len(processed.notifications) - 1) -> Behaviours(1)] :
                 LET left == Notifications(processed.notifications, 1, first, later,
                                           <<>>, 0)
                 IN  /\ total_updates' = IF task.event_type = "market_data"
                                         THEN total_updates + 1 ELSE total_updates
                     /\ current_data' = processed.current_data
                     /\ order_books' = processed.order_books
                     /\ loop_tasks' =
                          [loop_tasks EXCEPT ![n] =
                             [task EXCEPT !.pc = IF left.cursor > 0 THEN "suspended"
                                                 ELSE "done",
                                          !.todo = left.todo,
                                          !.cursor = left.cursor,
                                          !.notified = processed.notifications,
                                          !.refreshed = processed.refreshed,
                                          !.delivered = left.delivered,
                                          !.raised = left.raised]]
        /\ UNCHANGED <<tradingVars, sport_events, compared, subscribers, balance, pushed>>

(* The await of a subscriber callback ends, by a return or an exception: *)
(* the coroutine goes on with the callbacks after it.                    *)
ResumeCallbacks ==
    \E n \in 1..Len(loop_tasks), result \in {"returns", "raises"} :
        /\ loop_tasks[n].pc = "suspended"
        /\ LET task == loop_tasks[n]
           IN  \E first \in Behaviours(task.cursor + 1),
                  later \in [1..(Len(task.todo) - 1) -> Behaviours(1)] :
                 LET left == Notifications(task.todo, task.cursor + 1, first, later,
                                           task.delivered,
                                           FirstRaised(task.raised, task.cursor, result))
                 IN  loop_tasks' =
                          [loop_tasks EXCEPT ![n] =
                             [task EXCEPT !.pc = IF left.cursor > 0 THEN "suspended"
                                                 ELSE "done",
                                          !.todo = left.todo,
                                          !.cursor = left.cursor,
                                          !.delivered = left.delivered,
                                          !.raised = left.raised]]
        /\ UNCHANGED <<tradingVars, marketVars, subscribers, current_data,
                       total_updates, balance, pushed>>

----------------------------------------------------------------------------
Next ==
    \/ PlaceWager
    \/ PlaceWagerResponse
    \/ RefreshQuotes
    \/ CancelWager
    \/ CancelWagerResponse
    \/ CancelAllWagers
    \/ CancelAllWagersResponse
    \/ PlaceManualWager
    \/ PlaceManualWagerResponse
    \/ CancelManualWager
    \/ CancelManualWagerResponse

Spec == Init /\ [][Next]_vars

(* Public events of every change type, routed by process_update. *)
RouteNext ==
    \/ HandleRoutedEvent
    \/ TriggerCallbacks

RouteSpec == Init /\ [][RouteNext]_vars

(* The order books of an event with several markets. *)
MarketsNext ==
    \/ InitializeEventBooks
    \/ RefreshEventBooks

MarketsSpec == Init /\ [][MarketsNext]_vars

(* The delivery loop while callbacks are subscribed and unsubscribed. *)
NotifyNext ==
    \/ SubscribeNamed
    \/ Unsubscribe
    \/ NotifySubscribers
    \/ ResumeNotify

NotifySpec == Init /\ [][NotifyNext]_vars

(* A consumer reads the active wagers while wagers are placed and        *)
(* cancelled.                                                            *)
SnapshotNext ==
    \/ PlaceWager
    \/ PlaceWagerResponse
    \/ CancelWager
    \/ CancelWagerResponse
    \/ CancelAllWagers
    \/ CancelAllWagersResponse
    \/ GetActiveWagers

SnapshotSpec == Init /\ [][SnapshotNext]_vars

(* The strategy's quotes and calls of the risk gate. *)
RiskNext ==
    \/ RefreshQuotes
    \/ PlaceWagerResponse
    \/ CheckWagerRisk

RiskSpec == Init /\ [][RiskNext]_vars

(* Wagers placed, and the exchange's status events about them. *)
UpdateNext ==
    \/ PlaceWager
    \/ PlaceWagerResponse
    \/ ProcessUpdate

UpdateSpec == Init /\ [][UpdateNext]_vars

(* The American-odds comparator on its own. *)
OddsNext == IsBetterOdds

OddsSpec == Init /\ [][OddsNext]_vars

(* The order book of a market, built and refreshed. *)
BookNext ==
    \/ InitializeOrderBooks
    \/ RefreshEventOrderBooks

BookSpec == Init /\ [][BookNext]_vars

(* The order book of a market that is quoted by lines. *)
DepthNext == InitializeDepthBooks

DepthSpec == Init /\ [][DepthNext]_vars

LinesNext == InitializeLineBooks

LinesSpec == Init /\ [][LinesNext]_vars

(* Push events from the Pusher thread to the subscribers. *)
PushNext ==
    \/ Subscribe
    \/ HandlePublicEvent
    \/ HandlePrivateEvent
    \/ TriggerCallbacks
    \/ ResumeCallbacks

PushSpec == Init /\ [][PushNext]_vars

----------------------------------------------------------------------------
(* Properties *)

Placements == {c \in BagToSet(inflight) : c.fn = "place_wager"}

ManagerPlacements == InFlight("place_wager", "wager_manager")

(* The step just taken is a WagerManager.place_wager that returned a      *)
(* falsy id: refused on validation or on the position limits, or failed   *)
(* in the transport.                                                      *)
PlaceFailed(outcome) ==
    /\ outcome.op \in {"place_wager", "refresh_quotes"}
    /\ outcome.returned /\ ~outcome.ok
    /\ outcome.why \in {"validation", "position_limits", "transport"}

(* C2: when two place_wager calls for one external id are in progress at  *)
(* once, at most one of them has issued api.place_wager for that id.      *)
C2_OnePlacementInFlightPerId ==
    \A c, d \in ManagerPlacements :
        /\ inflight[c] = 1
        /\ c.wager.external_id = d.wager.external_id => c = d

(* C3, as claimed: when place_wager fails, on its return the external id  *)
(* is not in pending_placements, no record was added to active_wagers or  *)
(* wager_history and total_placed is unchanged.                           *)
C3_FailedPlacementIdNotPending ==
    [][PlaceFailed(last') =>
          /\ last'.external_id \notin DOMAIN pending_placements'
          /\ active_wagers' = active_wagers
          /\ wager_history' = wager_history
          /\ total_placed' = total_placed]_vars

(* C3, amended: a failed place_wager adds no record to active_wagers or   *)
(* wager_history and leaves total_placed; a refusal (validation, position *)
(* limits) leaves pending_placements as it was, and a transport failure   *)
(* leaves it without the external id.                                     *)
C3_FailedPlacementLeavesNothing ==
    [][PlaceFailed(last') =>
          /\ active_wagers' = active_wagers
          /\ wager_history' = wager_history
          /\ total_placed' = total_placed
          /\ IF last'.why = "transport"
             THEN /\ last'.external_id \notin DOMAIN pending_placements'
                  /\ \A x \in DOMAIN pending_placements \ {last'.external_id} :
                        /\ x \in DOMAIN pending_placements'
                        /\ pending_placements'[x] = pending_placements[x]
             ELSE pending_placements' = pending_placements]_vars

(* A placement fails in the transport while a record is active and        *)
(* another placement is pending.                                          *)
C3_Witness ==
    /\ PlaceFailed(last) /\ last.why = "transport"
    /\ active_wagers # <<>>
    /\ DOMAIN pending_placements # {}

(* No record object is in the active set and in the history at once. *)
NoRecordHalfMoved ==
    \A i \in 1..Len(active_wagers), j \in 1..Len(wager_history) :
        active_wagers[i].rid # wager_history[j].rid

(* C4: when cancel_all_wagers has returned success the active set is      *)
(* empty and the exposure is 0, and in no state between two steps of the  *)
(* event loop is a record both active and in the history.                 *)
C4_CancelAllAtomic ==
    /\ (last.op = "cancel_all_wagers" /\ last.returned /\ last.ok) =>
          /\ get_active_wagers = <<>>
          /\ get_total_exposure = 0
    /\ NoRecordHalfMoved

(* cancel_all_wagers has returned success and moved two records. *)
C4_Witness ==
    /\ last.op = "cancel_all_wagers" /\ last.returned /\ last.ok
    /\ Len(wager_history) >= 2
    /\ total_cancelled >= 2

(* C5: every call of api.place_wager in flight was accepted by a risk     *)
(* evaluation first.  The evaluation is RiskManager.check_wager_risk; the *)
(* WagerManager's own check of stake, odds and position limits is counted *)
(* as one too, so that only a path with no check at all is a violation.   *)
C5_PlacementsRiskChecked ==
    \A c \in Placements : c.risk_checked \/ c.validated

(* C6: in a dry run neither the strategy's quote refresh nor              *)
(* place_manual_wager gets a call of api.place_wager in flight.           *)
C6_DryRunPlacesNothing ==
    settings.trading.dry_run =>
        \A c \in Placements :
            c.caller # "platform" /\ c.strategy_name # "simple_market_maker"

(* The wager state machine of the specification. *)
REJECTED == "rejected"

Transitions ==
    { <<PENDING, OPEN>>, <<PENDING, REJECTED>>, <<OPEN, MATCHED>>,
      <<OPEN, CANCELLED>>, <<MATCHED, SETTLED>>, <<MATCHED, CANCELLED>> }

Follows(record, after) ==
    \A j \in 1..Len(after) :
        after[j].rid = record.rid =>
            \/ after[j].wager.status = record.wager.status
            \/ <<record.wager.status, after[j].wager.status>> \in Transitions

(* C7: every change of a wager's status is a transition of the state      *)
(* machine.                                                               *)
C7_StatusFollowsStateMachine ==
    [][\A i \in 1..Len(active_wagers) :
          /\ Follows(active_wagers[i], active_wagers')
          /\ Follows(active_wagers[i], wager_history')]_vars

(* Stake and odds that C8 says are refused, stated on the configuration. *)
OutOfBounds(odds, stake) ==
    \/ stake <= 0
    \/ stake > settings.trading.max_stake_per_wager
    \/ odds < settings.trading.min_odds
    \/ odds > settings.trading.max_odds

(* C8: a place_wager whose stake is <= 0 or over max_stake_per_wager, or  *)
(* whose odds are outside [min_odds, max_odds], returns no id, puts no    *)
(* call in flight and changes nothing of the manager or the id map.       *)
C8_OutOfBoundsRefused ==
    [][\A odds \in Odds, stake \in Stakes :
          OutOfBounds(odds, stake) =>
            LET wager == Wager(last'.external_id, odds, stake)
                refused == /\ last'.returned /\ ~last'.ok
                           /\ UNCHANGED <<managerVars, inflight, api_wagers>>
            IN  /\ (/\ last'.op = "place_wager"
                    /\ place_wager("place_wager", wager, "caller", NoEvent, FALSE))
                       => refused
                /\ \A event_id \in EventIds :
                      (/\ last'.op = "refresh_quotes"
                       /\ place_wager("refresh_quotes", wager, "simple_market_maker",
                                      event_id, TRUE))
                         => refused]_vars

(* An out-of-bounds wager is refused while a record is active and a       *)
(* placement is pending.                                                  *)
C8_Witness ==
    /\ last.op = "place_wager" /\ last.returned /\ ~last.ok
    /\ last.why = "validation"
    /\ total_placed = 1
    /\ DOMAIN pending_placements # {}

(* C9: cancel_wager for an id that is not in the active set returns       *)
(* False, puts no call in flight and changes nothing of the manager or    *)
(* the id map.                                                            *)
C9_CancelUnknownRefused ==
    [][\A external_id \in ExternalIds :
          (external_id \notin DictKeys(active_wagers) /\ cancel_wager(external_id))
          => (/\ last'.op = "cancel_wager" /\ last'.returned /\ ~last'.ok
              /\ UNCHANGED <<managerVars, inflight, api_wagers>>)]_vars

(* cancel_wager is refused for an id whose placement is still in flight. *)
C9_Witness ==
    /\ last.op = "cancel_wager" /\ last.returned /\ ~last.ok
    /\ last.external_id \notin DictKeys(active_wagers)
    /\ last.external_id \in DOMAIN pending_placements
    /\ \E c \in ManagerPlacements : c.wager.external_id = last.external_id

(* C10: cancel_wager on an active id moves the record to the history as   *)
(* Cancelled and counts it exactly when the transport reports success;    *)
(* otherwise the record stays and nothing is appended; either way the     *)
(* pending-cancellation entry is gone.                                    *)
C10_CancelMovesIffTransportSucceeds ==
    [][\A c \in InFlight("cancel_wager", "wager_manager"), response \in Responses :
          cancel_wager_response(c, response) =>
            /\ c.wager.external_id \notin DOMAIN pending_cancellations'
            /\ IF CancelSucceeds(response)
               THEN /\ last'.ok
                    /\ c.wager.external_id \notin DictKeys(active_wagers')
                    /\ Len(wager_history') = Len(wager_history) + 1
                    /\ wager_history'[Len(wager_history')].wager.external_id =
                          c.wager.external_id
                    /\ wager_history'[Len(wager_history')].wager.status = CANCELLED
                    /\ total_cancelled' = total_cancelled + 1
               ELSE /\ ~last'.ok
                    /\ UNCHANGED <<active_wagers, wager_history, total_cancelled>>]_vars

----------------------------------------------------------------------------
(* Properties of the market data *)

(* C20: the comparator: better(x, x) is false; None is never better and   *)
(* any priced value is better than None; of two positive values the       *)
(* larger is better; of two negative values the one nearer zero is        *)
(* better; of a positive and a negative value the positive is better.     *)
C20_ComparatorIsAmericanOdds ==
    LET new == compared.new_odds
        current == compared.current_odds
        priced == new # None /\ current # None
    IN  /\ new = current => ~compared.better
        /\ new = None => ~compared.better
        /\ (new # None /\ current = None) => compared.better
        /\ (priced /\ new > 0 /\ current > 0) => (compared.better <=> new > current)
        /\ (priced /\ new < 0 /\ current < 0)
              => (compared.better <=> abs(new) < abs(current))
        /\ (priced /\ new > 0 /\ current < 0) => compared.better
        /\ (priced /\ new < 0 /\ current > 0) => ~compared.better

(* Two negative odds were compared and the one nearer zero was better. *)
C20_Witness ==
    /\ compared.new_odds # None /\ compared.current_odds # None
    /\ compared.new_odds < 0 /\ compared.current_odds < compared.new_odds
    /\ compared.better

(* The book of the event's market, a new one before it is built. *)
TheBook == IF BookId \in DOMAIN order_books THEN order_books[BookId] ELSE OrderBook

TheMarket == sport_events[CHOOSE event_id \in EventIds : TRUE]

(* Processing the market's selections meets an entry that is not a dict. *)
InternalError(market) ==
    IF market.selections # <<>> THEN HasMalformed(market.selections)
    ELSE \E i \in 1..Len(market.market_lines) :
            HasMalformed(market.market_lines[i].selections)

(* C16: when processing the selections of the market fails inside, the   *)
(* order book is left exactly as it was before the update: selections,   *)
(* line_groups, available_lines and the metrics.                         *)
C16_FailedUpdateLeavesBook ==
    [][(BookId \in DOMAIN order_books' /\ InternalError(TheMarket'))
          => order_books'[BookId] = TheBook]_vars

(* C17: every level in a line group of the book is also in its flat      *)
(* selections.                                                           *)
C17_LineGroupsWithinSelections ==
    \A line \in DOMAIN TheBook.line_groups :
        \A name \in DOMAIN TheBook.line_groups[line] :
            \A i \in 1..Len(TheBook.line_groups[line][name]) :
                \E j \in 1..Len(TheBook.selections) :
                    TheBook.selections[j] = TheBook.line_groups[line][name][i]

(* C18: the spread of the book is max(odds) - min(odds) over its priced  *)
(* selections, 0 with fewer than two of them, and its total_volume is    *)
(* the sum of size over all its selections.                              *)
C18_MetricsMatchSelections ==
    LET priced == {j \in 1..Len(TheBook.selections) : TheBook.selections[j].odds # None}
        odds == {TheBook.selections[j].odds : j \in priced}
    IN  /\ TheBook.spread = IF Cardinality(priced) >= 2
                            THEN MaxOf(odds) - MinOf(odds) ELSE 0
        /\ TheBook.total_volume = SumSizes(TheBook.selections)

(* A book of two priced selections at different odds. *)
C18_Witness ==
    /\ BookId \in DOMAIN order_books
    /\ Len(TheBook.selections) = 2
    /\ TheBook.spread > 0
    /\ TheBook.total_volume > 0

(* C19: after the flat algorithm has processed the entries of the market *)
(* the book holds exactly one selection for each name among them, at the *)
(* best odds among the entries of that name.                             *)
C19_OneBestSelectionPerName ==
    LET entries == TheMarket.selections
        names == {entries[i].name : i \in 1..Len(entries)} \ {""}
    IN  (BookId \in DOMAIN order_books /\ entries # <<>> /\ ~HasMalformed(entries))
        => /\ Len(TheBook.selections) = Cardinality(names)
           /\ \A name \in names :
                \E j \in 1..Len(TheBook.selections) :
                    /\ TheBook.selections[j].selection_name = name
                    /\ \E i \in 1..Len(entries) :
                          /\ entries[i].name = name
                          /\ entries[i].odds = TheBook.selections[j].odds
                    /\ \A i \in 1..Len(entries) :
                          entries[i].name = name
                          => ~_is_better_odds(entries[i].odds,
                                              TheBook.selections[j].odds)

----------------------------------------------------------------------------
(* Properties of the push events *)

(* The payload is not valid base64 or does not decode to valid JSON. *)
Undecodable(payload) == payload.kind \in {"bad_padding", "not_utf8", "not_json"}

(* The Pusher thread has handed an envelope to a handler in this step. *)
PushHandled == pushed' = pushed + 1

(* C11: a public push envelope whose payload is not valid base64 or not  *)
(* valid JSON is dropped by the handler: it schedules no market-data     *)
(* callback on the event loop.                                           *)
C11_UndecodableDropped ==
    [][\A envelope \in PublicEnvelopes :
          (/\ Undecodable(envelope.payload)
           /\ PushHandled
           /\ loop_tasks' = loop_tasks \o _handle_public_event(envelope))
          => loop_tasks' = loop_tasks]_vars

(* The coroutine is that of a matched_bet update with a sport_event_id   *)
(* and a market_id.                                                      *)
IsMatchedBet(task) ==
    /\ task.event_type = "market_data"
    /\ ~task.data.raw_data
    /\ task.data.change_type = "matched_bet"
    /\ task.data.sport_event_id # None
    /\ task.data.market_id # None

(* Coroutine n ends in this step. *)
Completes(n) ==
    /\ n \in 1..Len(loop_tasks)
    /\ loop_tasks[n].pc # "done"
    /\ loop_tasks'[n].pc = "done"

(* The trade_update calls a coroutine made to the callback at position i. *)
TradeUpdates(task, i) ==
    {j \in 1..Len(task.delivered) :
        /\ task.delivered[j].position = i
        /\ task.delivered[j].notification.update_type = "trade_update"}

(* C12: when the processing of a matched_bet update with a               *)
(* sport_event_id and a market_id ends, every subscriber has been called *)
(* with exactly one trade_update, which carries that event id, market    *)
(* id, matched stake and matched odds, and the books of that event have  *)
(* been refreshed exactly once.                                          *)
C12_OneTradeUpdateOneRefresh ==
    [][\A n \in 1..Len(loop_tasks) :
          (Completes(n) /\ IsMatchedBet(loop_tasks[n]))
          => LET task == loop_tasks'[n]
             IN  /\ task.refreshed = <<task.data.sport_event_id>>
                 /\ \A i \in 1..Len(subscribers') :
                      /\ Cardinality(TradeUpdates(task, i)) = 1
                      /\ \A j \in TradeUpdates(task, i) :
                           LET notification == task.delivered[j].notification
                           IN  /\ notification.event_id = task.data.sport_event_id
                               /\ notification.market_id = task.data.market_id
                               /\ Len(notification.trade) = 1
                               /\ notification.trade[1].stake = task.data.matched_stake
                               /\ notification.trade[1].odds = task.data.matched_odds]_vars

(* A matched_bet update has been processed and delivered to two          *)
(* subscribers.                                                          *)
C12_Witness ==
    \E n \in 1..Len(loop_tasks) :
        /\ IsMatchedBet(loop_tasks[n])
        /\ loop_tasks[n].pc = "done"
        /\ Len(subscribers) = 2
        /\ Len(loop_tasks[n].delivered) = 2
        /\ loop_tasks[n].refreshed = <<PushedEvent>>

(* Two market updates for the same event and market. *)
SameMarket(a, b) ==
    /\ a.event_type = "market_data" /\ b.event_type = "market_data"
    /\ a.data.sport_event_id # None /\ a.data.market_id # None
    /\ a.data.sport_event_id = b.data.sport_event_id
    /\ a.data.market_id = b.data.market_id

(* C13: of two updates for the same market, the later one mutates no     *)
(* state and delivers no notification before the mutation and all the    *)
(* notifications of the earlier one are completed: the coroutine of the  *)
(* later one does not start before that of the earlier one has ended.    *)
C13_UpdatesInArrivalOrder ==
    \A m \in 1..Len(loop_tasks), n \in 1..Len(loop_tasks) :
        (m < n /\ SameMarket(loop_tasks[m], loop_tasks[n])
               /\ loop_tasks[n].pc # "scheduled")
        => loop_tasks[m].pc = "done"

(* C14: a step of a push handler, on the Pusher thread, writes no shared *)
(* state of the platform: all it does is hand coroutines to the event    *)
(* loop.                                                                 *)
C14_PushThreadWritesNothing ==
    [][PushHandled
          => UNCHANGED <<tradingVars, marketVars, subscribers, current_data,
                         total_updates, balance>>]_vars

(* The calls go through subscribers in order: position 1 first for each  *)
(* notification, then one position after the other.                      *)
InRegistrationOrder(calls_made) ==
    \A j \in 1..Len(calls_made) :
        calls_made[j].position =
            IF j = 1 \/ calls_made[j].notification # calls_made[j - 1].notification
            THEN 1 ELSE calls_made[j - 1].position + 1

(* C15: when a coroutine ends, each of its notifications has been passed *)
(* to the subscribers one after the other in registration order, up to   *)
(* the last subscriber registered, whether or not a callback raised, and *)
(* all its notifications have been dealt with.                           *)
C15_EverySubscriberInOrder ==
    [][\A n \in 1..Len(loop_tasks) :
          Completes(n)
          => LET task == loop_tasks'[n]
             IN  /\ task.todo = <<>>
                 /\ InRegistrationOrder(task.delivered)
                 /\ (task.notified # <<>> /\ subscribers' # <<>>)
                    => /\ task.delivered # <<>>
                       /\ task.delivered[Len(task.delivered)].position = Len(subscribers')
                       /\ task.delivered[Len(task.delivered)].notification =
                            task.notified[Len(task.notified)]]_vars

(* The first subscriber raised and the second was still called. *)
C15_Witness ==
    \E n \in 1..Len(loop_tasks) :
        /\ loop_tasks[n].pc = "done"
        /\ loop_tasks[n].raised = 1
        /\ Len(subscribers) = 2
        /\ Len(loop_tasks[n].delivered) = 2
        /\ loop_tasks[n].delivered[2].position = 2

-----------------------------------------------------------------------------
(* Properties: the sorted line values *)

(* available_lines in numeric order, every text that is not a number     *)
(* after all the numbers.                                                *)
NumericallySorted(lines) ==
    \A i, j \in 1..Len(lines) :
        i < j =>
            /\ ~IsFloat(lines[i]) => ~IsFloat(lines[j])
            /\ IsFloat(lines[i]) /\ IsFloat(lines[j]) => Float(lines[i]) <= Float(lines[j])

(* C21: after the line-grouped algorithm has processed a market, the     *)
(* book's available_lines are in ascending numeric order with every      *)
(* non-numeric value after all numeric ones, also when a non-numeric     *)
(* value other than 'N/A' is among them.                                 *)
C21_LinesNumericallySorted ==
    \A id \in DOMAIN order_books : NumericallySorted(order_books[id].available_lines)

-----------------------------------------------------------------------------
(* Properties: the records of the wager manager *)

Terminal == {CANCELLED, SETTLED, REJECTED}

(* C24: no record of active_wagers has a terminal status (Cancelled,     *)
(* Settled, Rejected) and every record of wager_history has one.         *)
C24_TerminalExactlyInHistory ==
    /\ \A i \in 1..Len(active_wagers) : active_wagers[i].wager.status \notin Terminal
    /\ \A i \in 1..Len(wager_history) : wager_history[i].wager.status \in Terminal

(* A cancel_wager has moved one record to history while another record   *)
(* stays active.                                                         *)
C24_Witness ==
    /\ last.op = "cancel_wager" /\ last.why = "cancelled"
    /\ active_wagers # <<>>
    /\ wager_history # <<>>

(* C25: an external id is never in active_wagers and in wager_history at *)
(* once, nor twice in wager_history: one record per external id.         *)
C25_ExternalIdNeverReused ==
    /\ \A i \in 1..Len(wager_history) :
           wager_history[i].wager.external_id \notin DictKeys(active_wagers)
    /\ \A i, j \in 1..Len(wager_history) :
           wager_history[i].wager.external_id = wager_history[j].wager.external_id
               => i = j

(* C26: however concurrent place_wager calls interleave, the exposure of *)
(* the active set stays within max_total_exposure and the number of      *)
(* active wagers within max_concurrent_wagers.                           *)
C26_LimitsHoldUnderInterleaving ==
    /\ get_total_exposure <= settings.trading.max_total_exposure
    /\ Len(active_wagers) <= settings.trading.max_concurrent_wagers

(* C28: pending_placements holds exactly the external ids whose          *)
(* api.place_wager call has been issued and has not returned, and none   *)
(* of them is in active_wagers meanwhile.                                *)
C28_PendingExactlyInFlight ==
    /\ DOMAIN pending_placements = {c.wager.external_id : c \in ManagerPlacements}
    /\ DOMAIN pending_placements \cap DictKeys(active_wagers) = {}

(* C29: every external id of active_wagers is a key of the exchange      *)
(* client's wagers map.                                                  *)
C29_ActiveKnownToApi == DictKeys(active_wagers) \subseteq DOMAIN api_wagers

(* C30: however concurrent cancel_wager calls for one id and             *)
(* cancel_all_wagers calls interleave, a record is appended to           *)
(* wager_history at most once and total_cancelled is the number of       *)
(* records appended.                                                     *)
C30_HistoryAppendedOnce ==
    /\ total_cancelled = Len(wager_history)
    /\ \A i, j \in 1..Len(wager_history) :
           wager_history[i].rid = wager_history[j].rid => i = j

(* A cancel_wager returned after another cancel had already moved the    *)
(* record of its id to history.                                          *)
C30_Witness ==
    /\ last.op = "cancel_wager" /\ last.why = "exception"
    /\ \E i \in 1..Len(wager_history) :
           wager_history[i].wager.external_id = last.external_id

(* The cancel_all_wagers call that the step resumes. *)
ResumedCancelAll ==
    {c \in InFlight("cancel_all_wagers", "wager_manager") :
        CopiesIn(c, inflight') < CopiesIn(c, inflight)}

(* C27: a cancel_all_wagers that succeeds moves to history, as           *)
(* Cancelled, only records that were active when it was called: a wager  *)
(* placed while its transport call was in flight is left alone.          *)
C27_CancelAllMovesOnlyIssuedSet ==
    [][ last'.op = "cancel_all_wagers" /\ last'.returned /\ last'.ok =>
            \A c \in ResumedCancelAll :
                \A i \in (Len(wager_history) + 1)..Len(wager_history') :
                    wager_history'[i].rid \in c.active ]_vars

(* C23: a status event of the exchange about an active wager moves its   *)
(* record on: to Matched in the active set, or, for the terminal status  *)
(* Settled, to wager_history.                                            *)
C23_StatusEventTransitionsRecord ==
    [][ last'.op = "process_update" /\ last'.external_id \in DictKeys(active_wagers) =>
            /\ last'.why = MATCHED =>
                   /\ last'.external_id \in DictKeys(active_wagers')
                   /\ DictGet(active_wagers', last'.external_id).wager.status = MATCHED
            /\ last'.why = SETTLED =>
                   /\ last'.external_id \notin DictKeys(active_wagers')
                   /\ \E i \in 1..Len(wager_history') :
                          /\ wager_history'[i].wager.external_id = last'.external_id
                          /\ wager_history'[i].wager.status = SETTLED ]_vars

-----------------------------------------------------------------------------
(* Properties: the routes of process_update *)

(* The market data updates process_update has processed. *)
Routed == {n \in 1..Len(loop_tasks) :
              loop_tasks[n].event_type = "market_data" /\ loop_tasks[n].pc # "scheduled"}

(* The notifications of an update other than those of refreshed books. *)
TypeSpecific(task) ==
    SelectSeq(task.notified, LAMBDA n : n.update_type # "order_book_update")

(* The notification type of a change tag. *)
RouteOf(change_type) ==
    CASE change_type \in {"selections", "market_selections"} -> "selection_update"
      [] change_type = "matched_bet" -> "trade_update"
      [] change_type = "market_line" -> "market_line_update"
      [] OTHER -> "market_data_update"

(* The notification is about the ids the update carries; without an      *)
(* event id it carries no id and passes the update on as it came.        *)
KeyedBy(notification, data) ==
    IF Missing(data.sport_event_id)
    THEN notification.event_id = None /\ notification.data = <<data>>
    ELSE /\ notification.event_id = data.sport_event_id
         /\ notification.market_id = data.market_id

(* C22, as claimed: every update gets exactly one notification of the    *)
(* type of its change tag.                                               *)
C22_OneNotificationPerUpdate ==
    \A n \in Routed :
        LET task == loop_tasks[n] IN
        /\ Len(TypeSpecific(task)) = 1
        /\ TypeSpecific(task)[1].update_type = RouteOf(task.data.change_type)

(* C22, as the code has it: an update tagged selections,                 *)
(* market_selections, matched_bet or market_line gets exactly one        *)
(* notification of its type when it carries an event id and a market id, *)
(* and none when either is missing; an update with any other tag gets    *)
(* exactly one market_data_update, keyed by its event and market id, or  *)
(* passing the update on as it came when it has no event id.             *)
C22_OneNotificationWhenIdsPresent ==
    \A n \in Routed :
        LET task == loop_tasks[n]
            data == task.data
            sent == TypeSpecific(task)
        IN  IF /\ RouteOf(data.change_type) # "market_data_update"
               /\ (Missing(data.sport_event_id) \/ Missing(data.market_id))
            THEN sent = <<>>
            ELSE /\ Len(sent) = 1
                 /\ sent[1].update_type = RouteOf(data.change_type)
                 /\ KeyedBy(sent[1], data)

(* A market_line update with both ids has been notified as a             *)
(* market_line_update, and a matched_bet update without a market id has  *)
(* been processed.                                                       *)
C22_Witness ==
    /\ \E n \in Routed :
           /\ loop_tasks[n].data.change_type = "market_line"
           /\ \E i \in 1..Len(loop_tasks[n].notified) :
                  loop_tasks[n].notified[i].update_type = "market_line_update"
    /\ \E n \in Routed :
           /\ loop_tasks[n].data.change_type = "matched_bet"
           /\ loop_tasks[n].data.market_id = None

-----------------------------------------------------------------------------
(* Properties: the counters of the wager manager *)

(* C31: after any sequence of place_wager, cancel_wager and              *)
(* cancel_all_wagers calls, total_placed is the number of active wagers  *)
(* plus total_cancelled.                                                 *)
C31_CountersConserved == total_placed = Len(active_wagers) + total_cancelled

-----------------------------------------------------------------------------
(* Properties: the risk gate *)

(* The checks of check_wager_risk that do not look at the event pass. *)
PassesGeneralChecks(stake) ==
    /\ stake <= settings.risk.max_position_size
    /\ get_total_exposure + stake <= settings.risk.max_position_size * 10
    /\ daily_pnl >= -settings.risk.max_daily_loss

(* C40: the per-event exposure check applies only when the market        *)
(* context has an event id and a per-event limit is configured for it:   *)
(* without such a limit a wager that passes the other checks is not      *)
(* rejected.                                                             *)
C40_NoEventLimitNoEventRejection ==
    /\ last.op = "check_wager_risk"
    /\ \/ last.event_id = NoEvent
       \/ last.event_id \notin DOMAIN settings.risk.position_limits
    /\ PassesGeneralChecks(last.stake)
    => last.ok

-----------------------------------------------------------------------------
(* Properties: the read accessors *)

(* C32: what get_active_wagers returned is a snapshot: no later cancel,  *)
(* cancel-all or placement changes a record of the list the consumer     *)
(* holds.                                                                *)
C32_AccessorsReturnSnapshots ==
    held.taken =>
        \A i \in 1..Len(held.refs) : Deref(held.refs[i], held.seen[i]) = held.seen[i]

-----------------------------------------------------------------------------
(* Properties: the delivery loop over a changing list *)

TimesCalled(name) ==
    Cardinality({i \in 1..Len(notifying.called) : notifying.called[i] = name})

(* C33: when a call of _notify_subscribers has ended, every callback     *)
(* that was subscribed from its beginning to its end has been called     *)
(* exactly once, whatever was subscribed or unsubscribed meanwhile.      *)
C33_StayingCallbacksCalledOnce ==
    notifying.runs > 0 /\ ~notifying.running =>
        \A name \in notifying.stayed : TimesCalled(name) = 1

-----------------------------------------------------------------------------
(* Properties: the life of an order book *)

(* C34: once the first push update that names an event and a market has  *)
(* been processed, the event has an order book among the order books.    *)
C34_BookCreatedOnFirstObservation ==
    \A n \in Routed :
        LET data == loop_tasks[n].data IN
        ~Missing(data.sport_event_id) /\ ~Missing(data.market_id)
            => event_order_books(data.sport_event_id) # {}

(* The names of the selections of the market a book was made from. *)
OwnSelectionNames(key) ==
    UNION {{selections[i].name : i \in 1..Len(selections)} :
              selections \in UNION {MarketQuotes(name) :
                                        name \in {n \in MarketNames :
                                            market_type(NamedMarket(n, 0, <<>>)) =
                                                key.market_type}}}

(* C35: the book made for a market holds selections of that market       *)
(* only, whatever other markets the event has.                           *)
C35_BookRefreshedFromOwnMarket ==
    \A key \in DOMAIN order_books :
        \A i \in 1..Len(order_books[key].selections) :
            order_books[key].selections[i].selection_name \in OwnSelectionNames(key)

-----------------------------------------------------------------------------
(* Properties: the flat-selection algorithm *)

(* C38: the size of the selection the flat algorithm retains for a name  *)
(* is the display size of the retained entry itself: 0 when it is        *)
(* unpriced, else its value when positive, else 1, whatever the sizes of *)
(* the worse-priced entries of the name.                                 *)
C38_RetainedSizeIsOwnDisplaySize ==
    LET entries == TheMarket.selections IN
    (BookId \in DOMAIN order_books /\ entries # <<>> /\ ~HasMalformed(entries))
        => \A j \in 1..Len(TheBook.selections) :
              \E i \in 1..Len(entries) :
                  /\ entries[i].name = TheBook.selections[j].selection_name
                  /\ entries[i].odds = TheBook.selections[j].odds
                  /\ TheBook.selections[j].size =
                        display_value(entries[i].odds, entries[i].value)

(* The odds a book holds for each name. *)
RetainedOdds(order_book) ==
    {<<order_book.selections[j].selection_name, order_book.selections[j].odds>> :
         j \in 1..Len(order_book.selections)}

Orderings(n) ==
    {p \in [1..n -> 1..n] : \A i, j \in 1..n : p[i] = p[j] => i = j}

Permuted(entries, p) == [i \in 1..Len(entries) |-> entries[p[i]]]

(* C39: the flat algorithm retains the same odds for each name whatever  *)
(* the order of the entries: every permutation of the entries of the     *)
(* market gives the odds the book holds.                                 *)
C39_FlatResultOrderIndependent ==
    LET entries == TheMarket.selections IN
    (BookId \in DOMAIN order_books /\ entries # <<>> /\ ~HasMalformed(entries))
        => \A p \in Orderings(Len(entries)) :
              RetainedOdds(_process_direct_selections(
                               OrderBook, Permuted(entries, p)).order_book)
                  = RetainedOdds(TheBook)

-----------------------------------------------------------------------------
(* Properties: the line-grouped algorithm *)

(* The book was built from a market quoted by lines, without an error. *)
BuiltFromLines ==
    /\ BookId \in DOMAIN order_books
    /\ TheMarket.selections = <<>>
    /\ TheMarket.market_lines # <<>>
    /\ ~InternalError(TheMarket)

(* The (outcome, line, odds, value) combinations of a name in a line of  *)
(* the market.                                                           *)
Combinations(line_value, name) ==
    LET lines == TheMarket.market_lines IN
    UNION {{unique_id(lines[k].selections[i].outcome_id, line_value,
                      lines[k].selections[i].odds, lines[k].selections[i].value) :
                i \in {i \in 1..Len(lines[k].selections) :
                           lines[k].selections[i].name = name}} :
              k \in {k \in 1..Len(lines) : lines[k].line = line_value}}

(* C36: line_groups[line][name] holds exactly one level for each         *)
(* distinct (outcome, line, odds, value) combination of the name in the  *)
(* line: none twice, none missing.                                       *)
C36_OneLevelPerCombination ==
    BuiltFromLines =>
        \A line \in DOMAIN TheBook.line_groups :
            \A name \in DOMAIN TheBook.line_groups[line] :
                LET levels == TheBook.line_groups[line][name] IN
                /\ {levels[i].selection_id : i \in 1..Len(levels)} =
                       Combinations(line, name)
                /\ Len(levels) = Cardinality(Combinations(line, name))

(* C37: in every line_groups[line][name] the priced levels come before   *)
(* the unpriced ones, and the priced levels are in non-increasing order  *)
(* of odds.                                                              *)
C37_PricedFirstDescending ==
    BuiltFromLines =>
        \A line \in DOMAIN TheBook.line_groups :
            \A name \in DOMAIN TheBook.line_groups[line] :
                LET levels == TheBook.line_groups[line][name] IN
                \A i, j \in 1..Len(levels) :
                    i < j =>
                        /\ levels[i].odds = None => levels[j].odds = None
                        /\ (levels[i].odds # None /\ levels[j].odds # None)
                              => levels[i].odds >= levels[j].odds

====
